---- MODULE Spec2Model ----
(***************************************************************************)
(* Model of the QuadraChat proxy server (Express application):             *)
(* the quota ledger (userEntitlements, paymentTransactions), the chat      *)
(* forwarding endpoint POST /api/chat with callOpenAIWithRetry, and the    *)
(* payment and read endpoints, and of the browser helper callOpenAI        *)
(* (src/utils/openai.ts).  Node.js runs each handler without               *)
(* interruption between two awaits, so every action below is one such      *)
(* uninterrupted run of code.                                              *)
(*                                                                         *)
(* The specifications share the variables:                                 *)
(*   Spec         the server: concurrent chat requests, payments, reads    *)
(*   SpecCall     one chat request, every kind of provider, payload and    *)
(*                upstream reply                                           *)
(*   SpecRetry    the retry loop of one chat request whose sleeps are      *)
(*                recorded                                                 *)
(*   SpecBody     one chat request, every shape of a 2xx upstream body     *)
(*   SpecPair     the retry loops of concurrent chat requests              *)
(*   SpecPairFair the same, every fetch settling and every timer firing    *)
(*   SpecConfig   start-up under every setting of the limiter              *)
(*   SpecUsers    two users who chat, pay and read at the same time        *)
(*   SpecClient   the calls of the browser helper callOpenAI               *)
(*   SpecPay      the payment and read endpoints while the clock advances  *)
(*   SpecIngress  production start-up: the limiter of /api/chat, bodies    *)
(*                express.json() rejects, credentials configured late      *)
(***************************************************************************)
EXTENDS Integers, Sequences, FiniteSets, TLC

VARIABLES
    userEntitlements,     \* const userEntitlements = {}   (userId -> entitlement)
    paymentTransactions,  \* const paymentTransactions = {} (id -> transaction)
    razorpayInstance,     \* TRUE iff the gateway client was constructed at start-up
    env,                  \* process.env: the names of the provider credentials
                          \* present, and the settings of the limiter as "NAME=value"
    chat,                 \* the POST /api/chat requests, one record per request
    orderCalls,           \* transaction ids whose gateway order call is awaited
    rateLimited,          \* number of 429 answers the upstream has given so far
    now,                  \* the reading of new Date()
    limiter,              \* the ingress limiter of /api/chat: options and store
    inherited,            \* members paymentTransactions inherits from Object.prototype
    slept,                \* per observed chat request, the backoff sleeps it began
    client                \* the browser helper src/utils/openai.ts: its clock,
                          \* lastRequestTime and the calls of callOpenAI

vars == <<userEntitlements, paymentTransactions, razorpayInstance, env, chat,
          orderCalls, rateLimited, now, limiter, inherited, slept, client>>

----------------------------------------------------------------------------
(* Bounds of the model *)

MaxRequests == 2      \* chat requests of the server specification
MaxTx == 1            \* payment transactions created
MaxRateLimited == 1   \* 429 answers of the upstream in the server specification
MaxTime == 2          \* readings of the clock: 0..MaxTime
MaxPayTx == 2         \* payment transactions of the payment specification
MaxIngress == 3       \* chat requests of the ingress specification
MaxWindows == 1       \* window resets per address of the ingress limiter
MaxCalls == 3         \* calls of callOpenAI in the browser
MaxClientTicks == 4   \* steps of the clock of the browser

----------------------------------------------------------------------------
(* Plan catalog *)

PLANS ==
    [ FREE    |-> [price |-> 0,   tokenLimit |-> 100000],
      COLLEGE |-> [price |-> 99,  tokenLimit |-> 500000],
      LITE    |-> [price |-> 299, tokenLimit |-> 2000000],
      PRO     |-> [price |-> 599, tokenLimit |-> 10000000] ]

PlanKeys == DOMAIN PLANS

maxRetries == 5

\* const MIN_REQUEST_INTERVAL = 1000 (src/utils/openai.ts)
MIN_REQUEST_INTERVAL == 1000

----------------------------------------------------------------------------
(* Strings.  A JavaScript string is modelled by its name; includes() is    *)
(* tabulated for the needles the code searches for.  An error message is   *)
(* the sequence of the parts the template literal concatenates; none of    *)
(* the strings below creates a needle across a part boundary.              *)

Needles(s) ==
    CASE s = " API key is not configured" -> {"API key"}
      [] s = " rate limit exceeded. Please try again later." -> {"rate limit"}
      [] s = "Payment required. Please add credits to your account." -> {"Payment required"}
      [] s = "fetch-proxy" -> {"fetch"}
      [] s = "rate limit reached" -> {"rate limit"}
      [] s = "failed to fetch upstream" -> {"fetch"}
      [] s = "invalid API key" -> {"API key"}
      [] s = "fetch failed" -> {"fetch"}
      [] OTHER -> {}

includes(msg, needle) == \E i \in DOMAIN msg : needle \in Needles(msg[i])

NoError == [type |-> "none", message |-> << >>]

Err(type, message) == [type |-> type, message |-> message]

----------------------------------------------------------------------------
(* Quota ledger *)

\* The keys of Object.prototype members, which a lookup store[key] on the
\* object literal {} (userEntitlements, paymentTransactions) finds although
\* the store holds no entry of that key.  'constructor' (the Object
\* function) stands for them.
InheritedKeys == {"constructor"}

\* The properties of the inherited members the program has assigned.
NoAssigned == [status |-> "undefined", updatedAt |-> << >>]

NewEntitlement_charged(userId) ==
    [userId |-> userId, plan |-> "FREE", tokenUsage |-> 1,
     tokenLimit |-> PLANS.FREE.tokenLimit, expiresAt |-> "null"]

NewEntitlement_noLimit(userId) ==
    [userId |-> userId, plan |-> "FREE", tokenUsage |-> 0,
     tokenLimit |-> 0, expiresAt |-> "null"]

\* The default entitlement getUserEntitlements creates.
NewEntitlement(userId) ==
    [userId |-> userId, plan |-> "FREE", tokenUsage |-> 0,
     tokenLimit |-> PLANS.FREE.tokenLimit, expiresAt |-> "null"]

\* The store after getUserEntitlements(userId).  !userEntitlements[userId]
\* is false for a stored user and for a key the store inherits; only for
\* another key the default entitlement is created.
getUserEntitlements(E, userId) ==
    IF userId \in DOMAIN E \/ userId \in InheritedKeys THEN E
    ELSE E @@ (userId :> NewEntitlement(userId))

\* The value getUserEntitlements(userId) returns: the stored entitlement
\* (created if need be), or the inherited member I[userId].
ReturnedEntitlement(E, I, userId) ==
    IF userId \in DOMAIN getUserEntitlements(E, userId)
    THEN getUserEntitlements(E, userId)[userId]
    ELSE I[userId]

updateUserTokenUsage_everyone(E, userId, tokens) ==
    LET E1 == getUserEntitlements(E, userId)
    IN  [u \in DOMAIN E1 |-> [E1[u] EXCEPT !.tokenUsage = @ + tokens]]

updateUserTokenUsage_clamped(E, userId, tokens) ==
    LET E1 == getUserEntitlements(E, userId)
        sum == E1[userId].tokenUsage + tokens
    IN  [E1 EXCEPT ![userId].tokenUsage =
            IF sum > E1[userId].tokenLimit THEN E1[userId].tokenLimit ELSE sum]

updateUserTokenUsage_overwrite(E, userId, tokens) ==
    LET E1 == getUserEntitlements(E, userId)
    IN  [E1 EXCEPT ![userId].tokenUsage = tokens]

\* The store after updateUserTokenUsage(userId, tokens).
updateUserTokenUsage(E, userId, tokens) ==
    LET E1 == getUserEntitlements(E, userId)
    IN  [E1 EXCEPT ![userId].tokenUsage = @ + tokens]

hasExceededTokenLimit_strict(E, userId) ==
    LET e == getUserEntitlements(E, userId)[userId]
    IN  e.tokenUsage > e.tokenLimit

\* The value returned by hasExceededTokenLimit(userId); the store becomes
\* getUserEntitlements(E, userId).
hasExceededTokenLimit(E, userId) ==
    LET e == getUserEntitlements(E, userId)[userId]
    IN  e.tokenUsage >= e.tokenLimit

\* createPaymentTransaction: the id is a fresh uuid, modelled by the next
\* unused name.
Uuids == <<"uuid-1", "uuid-2", "uuid-3", "uuid-4", "uuid-5", "uuid-6">>

NewTransactionId(T) == Uuids[Cardinality(DOMAIN T) + 1]

\* The store after createPaymentTransaction; t is the reading of new Date()
\* that createdAt and updatedAt receive.
createPaymentTransaction(T, userId, plan, t) ==
    LET id == NewTransactionId(T)
    IN  T @@ (id :> [id |-> id, userId |-> userId, plan |-> plan,
                     amount |-> PLANS[plan].price, status |-> "pending",
                     createdAt |-> t, updatedAt |-> t])

updatePaymentTransactionStatus_stampsCreated(T, transactionId, status, t) ==
    IF transactionId \notin DOMAIN T THEN T
    ELSE [T EXCEPT ![transactionId].status = status,
                   ![transactionId].createdAt = t,
                   ![transactionId].updatedAt = t]

\* The store after updatePaymentTransactionStatus; t is the reading of
\* new Date().  Only a stored transaction is an own property of the store.
updatePaymentTransactionStatus(T, transactionId, status, t) ==
    IF transactionId \notin DOMAIN T THEN T
    ELSE [T EXCEPT ![transactionId].status = status,
                   ![transactionId].updatedAt = t]

\* The inherited members after updatePaymentTransactionStatus: for a key
\* the store inherits, paymentTransactions[transactionId] is truthy and the
\* two assignments go to the inherited member.
updateInherited(I, T, transactionId, status, t) ==
    IF transactionId \notin DOMAIN T /\ transactionId \in InheritedKeys
    THEN [I EXCEPT ![transactionId] = [status |-> status, updatedAt |-> <<t>>]]
    ELSE I

\* What return gives the caller of updatePaymentTransactionStatus: the
\* updated transaction, the inherited member, or null.
Null == [null |-> TRUE]

UpdatedTransaction(T, transactionId, status, t) ==
    IF transactionId \in DOMAIN T
    THEN updatePaymentTransactionStatus(T, transactionId, status, t)[transactionId]
    ELSE IF transactionId \in InheritedKeys
    THEN [status |-> status, updatedAt |-> <<t>>]
    ELSE Null

upgradeUserPlan_reset(E, userId, plan) ==
    LET E1 == getUserEntitlements(E, userId)
        E2 == [E1 EXCEPT ![userId].plan = plan]
    IN  IF plan \in PlanKeys
        THEN [ents |-> [E2 EXCEPT ![userId].tokenLimit = PLANS[plan].tokenLimit,
                                  ![userId].tokenUsage = 0,
                                  ![userId].expiresAt = "null"],
              threw |-> FALSE]
        ELSE [ents |-> E2, threw |-> TRUE]

\* upgradeUserPlan: the plan field is assigned before PLANS[plan].tokenLimit
\* is read, and that read throws a TypeError when plan is not a catalog key.
upgradeUserPlan(E, userId, plan) ==
    LET E1 == getUserEntitlements(E, userId)
        E2 == [E1 EXCEPT ![userId].plan = plan]
    IN  IF plan \in PlanKeys
        THEN [ents |-> [E2 EXCEPT ![userId].tokenLimit = PLANS[plan].tokenLimit,
                                  ![userId].expiresAt = "null"],
              threw |-> FALSE]
        ELSE [ents |-> E2, threw |-> TRUE]

----------------------------------------------------------------------------
(* Provider registry and one upstream attempt of callOpenAIWithRetry *)

\* The switch on provider: credential name, endpoint and model.
Resolve(provider) ==
    CASE provider = "openrouter" ->
            [key |-> "OPENROUTER_API_KEY",
             endpoint |-> "https://openrouter.ai/api/v1/chat/completions",
             model |-> "openai/gpt-3.5-turbo"]
      [] provider = "gpt5-nano" ->
            [key |-> "OPENAI_GPT5_NANO_KEY",
             endpoint |-> "https://openrouter.ai/api/v1/chat/completions",
             model |-> "openai/gpt-5-nano"]
      [] OTHER ->
            [key |-> "OPENROUTER_API_KEY",
             endpoint |-> "https://openrouter.ai/api/v1/chat/completions",
             model |-> "openai/gpt-3.5-turbo"]

\* The request fetch sends for a provider: the credential of the
\* Authorization header, the endpoint, the model of the body, and whether
\* the HTTP-Referer and X-Title headers are added.
UpstreamRequest(provider) ==
    [key |-> Resolve(provider).key, endpoint |-> Resolve(provider).endpoint,
     model |-> Resolve(provider).model,
     attribution |-> provider \in {"openrouter", "gpt5-nano"}]

NoRequest == [key |-> "none", endpoint |-> "none", model |-> "none",
              attribution |-> FALSE]

RECURSIVE Pow2(_)
Pow2(n) == IF n = 0 THEN 1 ELSE 2 * Pow2(n - 1)

Min(a, b) == IF a < b THEN a ELSE b

Backoff_linear(attempt, jitter) == Min((attempt + 1) * 1000 + jitter, 30000)

\* Math.min(Math.pow(2, attempt) * 1000 + Math.random() * 1000, 30000)
Backoff(attempt, jitter) == Min(Pow2(attempt) * 1000 + jitter, 30000)

\* An upstream reply: the settled fetch together with the body the code
\* reads from it (response.text() or response.json()).
\*   kind "ok"      2xx whose first choice has string content of length `content`
\*                  (the empty string when `content` is 0)
\*   kind "blank"   2xx whose first choice has content of `content` white-space
\*                  characters and nothing else
\*   kind "invalid" 2xx whose JSON body has the shape `errorText`:
\*                  "null"          the body is null
\*                  "noChoices"     an object without choices
\*                  "noFirstChoice" choices is []
\*                  "noContent"     the first choice has no message.content
\*                  "nullContent"   message.content is null
\*                  "notString"     message.content is a number
\*   kind "429"     retryAfter is << >> (no retry-after header) or <<seconds>>
\*   kind "402"
\*   kind "status"  any other non-OK status `status`, with body text `errorText`
\*   kind "reject"  fetch rejected with an error of type `errorType` and
\*                  message `errorText`
Reply(kind, status, content, retryAfter, errorType, errorText) ==
    [kind |-> kind, status |-> status, content |-> content, retryAfter |-> retryAfter,
     errorType |-> errorType, errorText |-> errorText]

MayRetry_always(attempt) == TRUE

MayRetry_offByOne(attempt) == attempt + 1 < maxRetries

\* if (attempt < maxRetries): a 429 is slept on and retried
MayRetry(attempt) == attempt < maxRetries

Returned(reply) ==
    [act |-> "return", error |-> NoError, delay |-> 0, content |-> reply.content]

Thrown(error) == [act |-> "throw", error |-> error, delay |-> 0, content |-> 0]

Validate_rejectsBlank(provider, reply) ==
    IF reply.kind = "ok" /\ reply.content > 0
    THEN Returned(reply)
    ELSE Thrown(Err("Error", <<"Invalid response structure from ", provider, " API">>))

\* The checks of the parsed body of a 2xx reply, from response.json() to
\* return data.  Reading data.choices of a null body is a TypeError; content
\* that is empty after trim() is logged (console.warn) and returned.
Validate(provider, reply) ==
    IF reply.kind = "invalid"
    THEN CASE reply.errorText = "null" ->
                Thrown(Err("TypeError",
                           <<"Cannot read properties of null (reading 'choices')">>))
           [] reply.errorText \in {"noChoices", "noFirstChoice"} ->
                Thrown(Err("Error",
                           <<"Invalid response structure from ", provider, " API">>))
           [] reply.errorText \in {"noContent", "nullContent"} ->
                Thrown(Err("Error",
                           <<"No message content in response from ", provider, " API">>))
           [] OTHER ->
                Thrown(Err("Error",
                           <<"Message content is not a string from ", provider, " API">>))
    ELSE Returned(reply)

RetryDelay_ignoresHint(retryAfter, attempt, jitter) == Backoff(attempt, jitter)

\* The delay of the sleep after a 429: parseInt(retryAfter) * 1000 when the
\* reply has a retry-after header (<<seconds>>), else the backoff.
RetryDelay(retryAfter, attempt, jitter) ==
    IF retryAfter # << >> THEN retryAfter[1] * 1000 ELSE Backoff(attempt, jitter)

\* What the body of the try block does with a reply on attempt `attempt`.
TryBody(provider, attempt, reply, jitter) ==
    CASE reply.kind = "reject" ->
            [act |-> "throw", error |-> Err(reply.errorType, <<reply.errorText>>),
             delay |-> 0, content |-> 0]
      [] reply.kind = "429" ->
            IF MayRetry(attempt)
            THEN [act |-> "sleep", error |-> NoError,
                  delay |-> RetryDelay(reply.retryAfter, attempt, jitter),
                  content |-> 0]
            ELSE [act |-> "throw",
                  error |-> Err("Error", <<provider, " rate limit exceeded. Please try again later.">>),
                  delay |-> 0, content |-> 0]
      [] reply.kind = "402" ->
            [act |-> "throw",
             error |-> Err("Error", <<"Payment required. Please add credits to your account.">>),
             delay |-> 0, content |-> 0]
      [] reply.kind = "status" ->
            [act |-> "throw",
             error |-> Err("Error", <<provider, " API error: ", ToString(reply.status), " - ", reply.errorText>>),
             delay |-> 0, content |-> 0]
      [] OTHER -> Validate(provider, reply)

CatchBlock_retryAll(attempt, error, jitter) ==
    IF attempt = maxRetries
    THEN [act |-> "throw", error |-> error, delay |-> 0, content |-> 0]
    ELSE [act |-> "continue", error |-> error, delay |-> 0, content |-> 0]

\* The catch block of the retry loop.
CatchBlock(attempt, error, jitter) ==
    IF attempt = maxRetries
    THEN [act |-> "throw", error |-> error, delay |-> 0, content |-> 0]
    ELSE IF error.type = "TypeError" \/ includes(error.message, "fetch")
    THEN [act |-> "sleep", error |-> error,
          delay |-> Backoff(attempt, jitter), content |-> 0]
    ELSE IF includes(error.message, "rate limit")
    THEN [act |-> "continue", error |-> error, delay |-> 0, content |-> 0]
    ELSE [act |-> "throw", error |-> error, delay |-> 0, content |-> 0]

\* One iteration of the loop from the settled fetch on: "return" (data),
\* "throw" (out of callOpenAIWithRetry), "sleep" (await setTimeout, then the
\* next iteration) or "continue" (the next iteration at once).
Attempt(provider, attempt, reply, jitter) ==
    LET t == TryBody(provider, attempt, reply, jitter)
    IN  IF t.act = "throw" THEN CatchBlock(attempt, t.error, jitter) ELSE t

\* Which await setTimeout of the loop a sleep after `reply` is: the one of
\* the 429 branch or the one of the catch block.
SleepCause(reply) == IF reply.kind = "429" THEN "429" ELSE "catch"

\* The record of a sleep begun on attempt `attempt`: the delay handed to
\* setTimeout, the retry-after header of the reply, and the cause.
Sleep(attempt, delay, reply) ==
    [attempt |-> attempt, delay |-> delay, hint |-> reply.retryAfter,
     cause |-> SleepCause(reply)]

\* No request is observed: the sleeps are not recorded.
NotObserved == [r \in {} |-> << >>]

Observe(S, r, sleep) ==
    IF r \in DOMAIN S THEN [S EXCEPT ![r] = Append(@, sleep)] ELSE S

----------------------------------------------------------------------------
(* POST /api/chat *)

\* The status and error string the catch block of the chat handler sends.
ErrorResponse(error) ==
    IF includes(error.message, "API key")
    THEN [status |-> 500, error |-> <<"Server configuration error: ">> \o error.message]
    ELSE IF includes(error.message, "rate limit") \/ includes(error.message, "Rate limit")
    THEN [status |-> 429, error |-> error.message]
    ELSE IF includes(error.message, "Payment required")
    THEN [status |-> 402, error |-> error.message]
    ELSE [status |-> 500, error |-> <<"Failed to process request: ">> \o error.message]

\* One entry of the messages array, by what the handler reads of it:
\*   Str(n)     content is a string of n characters
\*   Obj(n)     content is an object (or array) whose length property is n
\*   NoContent  the entry has no content (or content null)
\*   NullMsg    the entry itself is null
Str(n) == [type |-> "string", length |-> n]
Obj(n) == [type |-> "object", length |-> n]
NoContent == [type |-> "undefined", length |-> 0]
NullMsg == [type |-> "null", length |-> 0]

\* msg.content?.length || 0
ContentLength(msg) == IF msg.type \in {"string", "object"} THEN msg.length ELSE 0

InputTokens_lastOnly(messages) ==
    IF messages.items = << >> THEN 0
    ELSE ContentLength(messages.items[Len(messages.items)])

RECURSIVE SumLengths(_)
SumLengths(items) ==
    IF items = << >> THEN 0 ELSE ContentLength(Head(items)) + SumLengths(Tail(items))

\* messages.reduce((total, msg) => total + (msg.content?.length || 0), 0)
InputTokens(messages) == SumLengths(messages.items)

\* msg.content throws a TypeError when msg is null.
ReduceThrows(messages) == \E i \in DOMAIN messages.items : messages.items[i].type = "null"

NoPlan == [userId |-> "none", plan |-> "none", tokenUsage |-> 0,
           tokenLimit |-> 0, expiresAt |-> "null"]

NoTokenInfo == [used |-> 0, totalUsage |-> 0, limit |-> 0, remaining |-> 0]

\* One POST /api/chat request.  pc is "idle" (not yet received), "fetch"
\* (awaiting the upstream), "sleep" (awaiting a backoff timer) or "done"
\* (answered).  userId, provider, messages: the request body after defaults;
\* attempt, lastError, delay: the locals of callOpenAIWithRetry; status,
\* error, paymentRequired, currentPlan, tokenInfo: the answer.  fetches,
\* body is the kind of the response body: "json" (res.json) or "html" (the
\* page of the default error handler of Express).  fetches, sleeps,
\* replies, usageAtCheck and replyLength record what the request did: the
\* upstream calls issued, the sleeps begun, the kinds of the upstream
\* replies in order, tokenUsage as the quota check saw it, and the length
\* of the content the upstream returned.  address, hit, window and limited
\* are set by the ingress limiter: the client address (req.ip), the
\* totalHits the limiter counted for it with this request, the window of
\* that counter, and whether the limiter answered the request.  request is
\* what every fetch of the request sends to the upstream.
IdleChat ==
    [pc |-> "idle", userId |-> "none", provider |-> "none",
     messages |-> [kind |-> "undefined", items |-> << >>],
     attempt |-> 0, lastError |-> NoError, delay |-> 0,
     fetches |-> 0, sleeps |-> 0, replies |-> << >>, usageAtCheck |-> 0,
     replyLength |-> 0, body |-> "none",
     address |-> "none", hit |-> 0, window |-> 0, limited |-> FALSE,
     request |-> NoRequest,
     status |-> 0, error |-> << >>, paymentRequired |-> FALSE,
     currentPlan |-> NoPlan, tokenInfo |-> NoTokenInfo]

DefaultUser_literal(userId) == userId

\* req.body.userId of a chat request ('anonymous' is the default).
DefaultUser(userId) == IF userId = "undefined" THEN "anonymous" ELSE userId

\* req.body.provider of a chat request ('openrouter' is the default).
DefaultProvider(provider) == IF provider = "undefined" THEN "openrouter" ELSE provider

\* res.status(status).json({error, ...})
Failed(c, status, error) ==
    [c EXCEPT !.pc = "done", !.status = status, !.error = error, !.body = "json"]

HasApiKey_anyKey(provider, e) == e # {}

\* !API_KEY is false: process.env holds the credential of the provider.
HasApiKey(provider, e) == Resolve(provider).key \in e

OverLimit_late(totalHits, max) == totalHits > max + 1

\* The test of the limiter on the hits it has counted for the address.
OverLimit(totalHits, max) == totalHits > max

\* The limiter middleware of /api/chat (mounted when rate limiting is not
\* disabled): it counts the request for its address and answers 429 with
\* the configured message when the count is over max, otherwise it calls
\* next().  Requests are numbered in the order in which they arrive.
LimiterIncrement(r, address) ==
    /\ ~limiter.disabled
    /\ chat[r].pc = "idle"
    /\ r > 1 => chat[r - 1].pc # "idle"
    /\ LET s == limiter.store[address]
           totalHits == s.totalHits + 1
           c0 == [chat[r] EXCEPT !.address = address, !.hit = totalHits,
                                 !.window = s.window]
       IN  /\ limiter' = [limiter EXCEPT !.store[address].totalHits = totalHits]
           /\ chat' = [chat EXCEPT ![r] =
                 IF OverLimit(totalHits, limiter.max)
                 THEN Failed([c0 EXCEPT !.limited = TRUE], 429,
                        <<"Rate limit exceeded. Please wait before sending another request.">>)
                 ELSE [c0 EXCEPT !.pc = "admitted"]]
    /\ UNCHANGED <<userEntitlements, paymentTransactions, razorpayInstance, env,
                   orderCalls, rateLimited, now, inherited, slept, client>>

\* windowMs have passed for the counter of an address: the store forgets
\* its hits, and a new window begins.
WindowReset(address) ==
    /\ ~limiter.disabled
    /\ limiter.store[address].totalHits > 0
    /\ limiter.store[address].window < MaxWindows
    /\ limiter' = [limiter EXCEPT !.store[address] =
                        [totalHits |-> 0, window |-> @.window + 1]]
    /\ UNCHANGED <<userEntitlements, paymentTransactions, razorpayInstance, env,
                   chat, orderCalls, rateLimited, now, inherited, slept, client>>

\* express.json() cannot parse the body of the request: it calls next(err),
\* no later middleware or handler runs, and the default error handler of
\* Express answers the status of the error, 400, with an HTML page.
ChatMalformed(r) ==
    /\ chat[r].pc = "idle"
    /\ r > 1 => chat[r - 1].pc # "idle"
    /\ chat' = [chat EXCEPT ![r] =
                    [@ EXCEPT !.pc = "done", !.status = 400, !.body = "html"]]
    /\ UNCHANGED <<userEntitlements, paymentTransactions, razorpayInstance, env,
                   orderCalls, rateLimited, now, limiter, inherited, slept, client>>

\* process.env gains the credential `key` while the server runs.
ConfigureCredential(key) ==
    /\ key \notin env
    /\ env' = env \cup {key}
    /\ UNCHANGED <<userEntitlements, paymentTransactions, razorpayInstance, chat,
                   orderCalls, rateLimited, now, limiter, inherited, slept, client>>

\* Time passes: a later new Date() reads a later instant.
Tick ==
    /\ now < MaxTime
    /\ now' = now + 1
    /\ UNCHANGED <<userEntitlements, paymentTransactions, razorpayInstance, env,
                   chat, orderCalls, rateLimited, limiter, inherited, slept, client>>

\* The handler from its first line to the first await (or to its response).
\* bodyUserId, bodyProvider and messages are the fields of req.body, a
\* missing one being "undefined" (messages: kind "undefined").  Requests
\* are numbered in the order in which they arrive.
ChatHandler(r, bodyUserId, bodyProvider, messages) ==
    /\ LET userId == DefaultUser(bodyUserId)
           provider == DefaultProvider(bodyProvider)
           c0 == [chat[r] EXCEPT !.userId = userId, !.provider = provider,
                                 !.messages = messages]
           E1 == getUserEntitlements(userEntitlements, userId)
           c1 == [c0 EXCEPT !.usageAtCheck = E1[userId].tokenUsage]
       IN  IF messages.kind # "array"
           THEN /\ chat' = [chat EXCEPT ![r] =
                                Failed(c0, 400, <<"Messages array is required">>)]
                /\ UNCHANGED userEntitlements
           ELSE IF hasExceededTokenLimit(userEntitlements, userId)
           THEN /\ chat' = [chat EXCEPT ![r] =
                    [Failed(c1, 402, <<"Payment required. You have exceeded your token limit.">>)
                        EXCEPT !.paymentRequired = TRUE, !.currentPlan = E1[userId]]]
                /\ userEntitlements' = E1
           ELSE IF ~HasApiKey(provider, env)
           THEN /\ chat' = [chat EXCEPT ![r] =
                    LET e == ErrorResponse(Err("Error", <<provider, " API key is not configured">>))
                    IN  Failed(c1, e.status, e.error)]
                /\ userEntitlements' = E1
           ELSE /\ chat' = [chat EXCEPT ![r] =
                                [c1 EXCEPT !.pc = "fetch", !.fetches = 1,
                                           !.request = UpstreamRequest(provider)]]
                /\ userEntitlements' = E1
    /\ UNCHANGED <<paymentTransactions, razorpayInstance, env, orderCalls,
                   rateLimited, now, limiter, inherited, slept, client>>

\* Request r is suspended at an await of callOpenAIWithRetry.
Suspended(r) == chat[r].pc \in {"fetch", "sleep"}

ChatReceive_serial(r, bodyUserId, bodyProvider, messages) ==
    /\ chat[r].pc = IF limiter.disabled THEN "idle" ELSE "admitted"
    /\ r > 1 => chat[r - 1].pc # "idle"
    /\ \A q \in DOMAIN chat : ~Suspended(q)
    /\ ChatHandler(r, bodyUserId, bodyProvider, messages)

\* The router hands request r to the chat handler: at once, or after the
\* limiter admitted it.  Nothing else is waited for.
ChatReceive(r, bodyUserId, bodyProvider, messages) ==
    /\ chat[r].pc = IF limiter.disabled THEN "idle" ELSE "admitted"
    /\ r > 1 => chat[r - 1].pc # "idle"
    /\ ChatHandler(r, bodyUserId, bodyProvider, messages)

\* The next loop iteration: attempt++, the loop test, and the next fetch.
NextIteration(c) ==
    IF c.attempt + 1 <= maxRetries
    THEN [c EXCEPT !.pc = "fetch", !.attempt = @ + 1, !.fetches = @ + 1,
                   !.delay = 0]
    ELSE LET e == ErrorResponse(c.lastError)
         IN  Failed([c EXCEPT !.attempt = @ + 1], e.status, e.error)

\* The awaited fetch settles: the rest of the loop iteration and, when
\* callOpenAIWithRetry returns or throws, the rest of the handler.
UpstreamReply(r, reply, jitter, counted) ==
    /\ chat[r].pc = "fetch"
    /\ (counted /\ reply.kind = "429") => rateLimited < MaxRateLimited
    /\ rateLimited' = IF counted /\ reply.kind = "429"
                      THEN rateLimited + 1 ELSE rateLimited
    /\ LET c == chat[r]
           a == Attempt(c.provider, c.attempt, reply, jitter)
           c1 == [c EXCEPT !.lastError = IF a.error = NoError THEN @ ELSE a.error,
                           !.replies = Append(@, reply.kind)]
       IN  CASE a.act = "return" /\ ReduceThrows(c.messages) ->
                  LET e == ErrorResponse(Err("TypeError",
                                <<"Cannot read properties of null (reading 'content')">>))
                  IN  /\ chat' = [chat EXCEPT ![r] =
                            Failed([c1 EXCEPT !.replyLength = a.content],
                                   e.status, e.error)]
                      /\ UNCHANGED <<userEntitlements, slept>>
             [] a.act = "return" /\ ~ReduceThrows(c.messages) ->
                  LET totalTokens == InputTokens(c.messages) + a.content
                      E1 == updateUserTokenUsage(userEntitlements, c.userId, totalTokens)
                      e == E1[c.userId]
                  IN  /\ userEntitlements' = E1
                      /\ UNCHANGED slept
                      /\ chat' = [chat EXCEPT ![r] =
                            [c1 EXCEPT !.pc = "done", !.status = 200,
                                !.body = "json", !.replyLength = a.content,
                                !.tokenInfo = [used |-> totalTokens,
                                               totalUsage |-> e.tokenUsage,
                                               limit |-> e.tokenLimit,
                                               remaining |-> e.tokenLimit - e.tokenUsage]]]
             [] a.act = "throw" ->
                  LET e == ErrorResponse(a.error)
                  IN  /\ chat' = [chat EXCEPT ![r] = Failed(c1, e.status, e.error)]
                      /\ UNCHANGED <<userEntitlements, slept>>
             [] a.act = "sleep" ->
                  /\ chat' = [chat EXCEPT ![r] =
                        [c1 EXCEPT !.pc = "sleep", !.delay = a.delay,
                                   !.sleeps = @ + 1]]
                  /\ slept' = Observe(slept, r, Sleep(c.attempt, a.delay, reply))
                  /\ UNCHANGED userEntitlements
             [] OTHER ->
                  /\ chat' = [chat EXCEPT ![r] = NextIteration(c1)]
                  /\ UNCHANGED <<userEntitlements, slept>>
    /\ UNCHANGED <<paymentTransactions, razorpayInstance, env, orderCalls, now,
                   limiter, inherited, client>>

SleepElapsed_shared(r) ==
    /\ chat[r].pc = "sleep"
    /\ chat' = [q \in DOMAIN chat |->
                    IF q = r THEN NextIteration(chat[q])
                    ELSE IF chat[q].pc = "fetch" /\ chat[q].attempt < maxRetries
                    THEN [chat[q] EXCEPT !.attempt = @ + 1]
                    ELSE chat[q]]
    /\ UNCHANGED <<userEntitlements, paymentTransactions, razorpayInstance, env,
                   orderCalls, rateLimited, now, limiter, inherited, slept, client>>

\* The setTimeout of a backoff sleep fires.
SleepElapsed(r) ==
    /\ chat[r].pc = "sleep"
    /\ chat' = [chat EXCEPT ![r] = NextIteration(chat[r])]
    /\ UNCHANGED <<userEntitlements, paymentTransactions, razorpayInstance, env,
                   orderCalls, rateLimited, now, limiter, inherited, slept, client>>

----------------------------------------------------------------------------
(* Payment and read endpoints *)

\* The entitlement object of userId, or NoPlan when the store has none.
Stored(E, userId) == IF userId \in DOMAIN E THEN E[userId] ELSE NoPlan

\* The status POST /api/payment/order answers before it calls the gateway,
\* 0 when it goes on to create the transaction.  A missing body field is
\* the value "undefined".
OrderRejected(userId, plan) ==
    IF userId = "undefined" \/ plan = "undefined" THEN 400
    ELSE IF plan \notin PlanKeys THEN 400
    ELSE IF ~razorpayInstance THEN 500
    ELSE 0

\* POST /api/payment/order up to the awaited gateway call.
PaymentOrder(userId, plan) ==
    /\ IF OrderRejected(userId, plan) # 0
       THEN UNCHANGED <<paymentTransactions, orderCalls>>
       ELSE /\ paymentTransactions' =
                    createPaymentTransaction(paymentTransactions, userId, plan, now)
            /\ orderCalls' = orderCalls \cup {NewTransactionId(paymentTransactions)}
    /\ UNCHANGED <<userEntitlements, razorpayInstance, env, chat, rateLimited, now,
                   limiter, inherited, slept, client>>

PaymentOrderSettled_rollback(transactionId, ok) ==
    /\ transactionId \in orderCalls
    /\ orderCalls' = orderCalls \ {transactionId}
    /\ paymentTransactions' =
            IF ok THEN paymentTransactions
            ELSE [t \in DOMAIN paymentTransactions \ {transactionId} |->
                        paymentTransactions[t]]
    /\ UNCHANGED <<userEntitlements, razorpayInstance, env,
                   chat, rateLimited, now, limiter, inherited, slept, client>>

\* razorpayInstance.orders.create settles: the order response (ok) or the
\* 500 of the catch block.
PaymentOrderSettled(transactionId, ok) ==
    /\ transactionId \in orderCalls
    /\ orderCalls' = orderCalls \ {transactionId}
    /\ UNCHANGED <<userEntitlements, paymentTransactions, razorpayInstance, env,
                   chat, rateLimited, now, limiter, inherited, slept, client>>

\* The status POST /api/payment/verify answers before it touches the
\* ledger, 0 when it goes on.  `gateway` is FALSE when one of the three
\* razorpay fields is missing from the body.
VerifyRejected(userId, plan, transactionId, gateway) ==
    IF userId = "undefined" \/ plan = "undefined" \/ transactionId = "undefined"
       \/ ~gateway
    THEN 400
    ELSE IF ~razorpayInstance THEN 500
    ELSE 0

\* The status POST /api/payment/verify answers.
VerifyStatus(userId, plan, transactionId, gateway) ==
    IF VerifyRejected(userId, plan, transactionId, gateway) # 0
    THEN VerifyRejected(userId, plan, transactionId, gateway)
    ELSE IF upgradeUserPlan(userEntitlements, userId, plan).threw THEN 500
    ELSE 200

\* POST /api/payment/verify
PaymentVerify(userId, plan, transactionId, gateway) ==
    /\ IF VerifyRejected(userId, plan, transactionId, gateway) # 0
       THEN UNCHANGED <<paymentTransactions, userEntitlements, inherited>>
       ELSE /\ paymentTransactions' =
                    updatePaymentTransactionStatus(paymentTransactions,
                                                   transactionId, "completed", now)
            /\ inherited' =
                    updateInherited(inherited, paymentTransactions,
                                    transactionId, "completed", now)
            /\ userEntitlements' =
                    upgradeUserPlan(userEntitlements, userId, plan).ents
    /\ UNCHANGED <<razorpayInstance, env, chat, orderCalls, rateLimited, now,
                   limiter, slept, client>>

\* GET /api/user/:userId/entitlements
GetEntitlements(userId) ==
    /\ userEntitlements' = getUserEntitlements(userEntitlements, userId)
    /\ UNCHANGED <<paymentTransactions, razorpayInstance, env, chat, orderCalls,
                   rateLimited, now, limiter, inherited, slept, client>>

\* The body of the answer of GET /api/user/:userId/transactions.
TransactionsOf(T, userId) == {T[t] : t \in {x \in DOMAIN T : T[x].userId = userId}}

\* GET /api/user/:userId/transactions
GetTransactions(userId) ==
    /\ TransactionsOf(paymentTransactions, userId) \subseteq
            {paymentTransactions[t] : t \in DOMAIN paymentTransactions}
    /\ UNCHANGED vars

----------------------------------------------------------------------------
(* The browser helper callOpenAI (src/utils/openai.ts) *)

\* The clock of the browser advances in steps of half the interval.
ClockStep == MIN_REQUEST_INTERVAL \div 2

\* Date.now() when the page has loaded: far from lastRequestTime = 0.
PageLoaded == 5 * MIN_REQUEST_INTERVAL

\* A call of callOpenAI: pc is "idle" (not yet called), "wait" (awaiting the
\* setTimeout of waitForRateLimit, due at wakeAt) or "sent" (it left
\* waitForRateLimit and issued its fetch at sentAt).
IdleCall == [pc |-> "idle", wakeAt |-> 0, sentAt |-> 0]

\* No browser is modelled.
NoClient == [time |-> 0, lastRequestTime |-> 0, calls |-> << >>]

\* The module after loading: let lastRequestTime = 0.
LoadedClient ==
    [time |-> PageLoaded, lastRequestTime |-> 0,
     calls |-> [c \in 1..MaxCalls |-> IdleCall]]

\* waitForRateLimit at Date.now() = t: the delay of its setTimeout, 0 when
\* it does not wait.
WaitDelay(lastRequestTime, t) ==
    IF t - lastRequestTime < MIN_REQUEST_INTERVAL
    THEN MIN_REQUEST_INTERVAL - (t - lastRequestTime)
    ELSE 0

\* Time passes in the browser.
ClientTick ==
    /\ client.calls # << >>
    /\ client.time < PageLoaded + MaxClientTicks * ClockStep
    /\ client' = [client EXCEPT !.time = @ + ClockStep]
    /\ UNCHANGED <<userEntitlements, paymentTransactions, razorpayInstance, env,
                   chat, orderCalls, rateLimited, now, limiter, inherited, slept>>

\* callOpenAI is called: waitForRateLimit runs to its await, or, when it
\* need not wait, to its end, and the fetch is issued.
ClientCall(c) ==
    /\ c \in DOMAIN client.calls
    /\ client.calls[c].pc = "idle"
    /\ LET delay == WaitDelay(client.lastRequestTime, client.time)
       IN  client' =
             IF delay > 0
             THEN [client EXCEPT !.calls[c] =
                        [pc |-> "wait", wakeAt |-> client.time + delay, sentAt |-> 0]]
             ELSE [client EXCEPT !.lastRequestTime = client.time,
                                 !.calls[c] = [pc |-> "sent", wakeAt |-> 0,
                                               sentAt |-> client.time]]
    /\ UNCHANGED <<userEntitlements, paymentTransactions, razorpayInstance, env,
                   chat, orderCalls, rateLimited, now, limiter, inherited, slept>>

\* The timer of a waiting call fires, at its due time or later:
\* lastRequestTime = Date.now(), waitForRateLimit returns and the fetch is
\* issued.
ClientWake(c) ==
    /\ c \in DOMAIN client.calls
    /\ client.calls[c].pc = "wait"
    /\ client.time >= client.calls[c].wakeAt
    /\ client' = [client EXCEPT !.lastRequestTime = client.time,
                                !.calls[c] = [pc |-> "sent", wakeAt |-> @.wakeAt,
                                              sentAt |-> client.time]]
    /\ UNCHANGED <<userEntitlements, paymentTransactions, razorpayInstance, env,
                   chat, orderCalls, rateLimited, now, limiter, inherited, slept>>

----------------------------------------------------------------------------
(* Inputs *)

UserIds == {"u1", "anonymous"}

EnvKeys == {"OPENROUTER_API_KEY", "OPENAI_GPT5_NANO_KEY"}

Undefined == [kind |-> "undefined", items |-> << >>]
NotArray == [kind |-> "string", items |-> << >>]
Array(items) == [kind |-> "array", items |-> items]

Ok(content) == Reply("ok", 200, content, << >>, "none", "none")
TooMany(retryAfter) == Reply("429", 429, 0, retryAfter, "none", "none")
Pay402 == Reply("402", 402, 0, << >>, "none", "none")
Status(status, errorText) == Reply("status", status, 0, << >>, "none", errorText)
Reject(errorType, errorText) == Reply("reject", 0, 0, << >>, errorType, errorText)
Blank(content) == Reply("blank", 200, content, << >>, "none", "none")
Invalid(shape) == Reply("invalid", 200, 0, << >>, "none", shape)

\* Server specification: few inputs per request, several requests.
ServerUsers == {"u1", "undefined"}
ServerProviders == {"undefined"}
ServerMessages ==
    {Undefined, Array(<< >>), Array(<<Str(50000)>>), Array(<<Str(50000), Str(50)>>)}
ServerReplies == {Ok(50000), TooMany(<< >>), Pay402, Status(500, "Internal Server Error")}
ServerJitters == {0}
\* Bodies of POST /api/payment/order: <<userId, plan>>.
OrderBodies ==
    {<<"u1", "LITE">>, <<"u1", "GOLD">>, <<"u1", "undefined">>, <<"undefined", "LITE">>}
\* Bodies of POST /api/payment/verify: <<userId, plan, transactionId, gateway>>.
VerifyPlans == {"FREE", "LITE", "GOLD"}
VerifyBodies ==
    {<<"u1", p, Uuids[t], TRUE>> : p \in VerifyPlans, t \in 1..(MaxTx + 1)}
    \cup {<<"undefined", "LITE", "uuid-1", TRUE>>, <<"u1", "undefined", "uuid-1", TRUE>>,
          <<"u1", "LITE", "undefined", TRUE>>, <<"u1", "LITE", "uuid-1", FALSE>>}
ServerEnvs == {{"OPENROUTER_API_KEY"}}

\* Call specification: one request, every kind of provider and reply.
CallProviders == {"openrouter", "gpt5-nano", "unknownX", "fetch-proxy", "undefined"}
CallMessages ==
    {Undefined, NotArray, Array(<< >>), Array(<<Str(50)>>), Array(<<Obj(-200)>>),
     Array(<<Str(50), NullMsg>>), Array(<<NoContent>>)}
CallReplies ==
    {Ok(0), Ok(50), TooMany(<< >>), TooMany(<<2>>), Pay402,
     Status(500, "Internal Server Error"), Status(503, "rate limit reached"),
     Status(500, "failed to fetch upstream"), Status(401, "invalid API key"),
     Reject("TypeError", "fetch failed"), Reject("FetchError", "socket hang up")}
CallJitters == {0, 999}

\* Retry specification: one observed request, the replies the loop sleeps
\* on or gives up on.  Math.random() * 1000 lies in [0, 1000).
RetryProviders == {"openrouter"}
RetryMessages == {Array(<<Str(50)>>)}
RetryReplies ==
    {Ok(50), Pay402, TooMany(<< >>), TooMany(<<2>>), TooMany(<<60>>),
     Reject("TypeError", "fetch failed"),
     Reject("FetchError", "request to https://openrouter.ai/api/v1/chat/completions failed, reason: getaddrinfo ENOTFOUND openrouter.ai")}
RetryJitters == {0, 999}

\* Pair specification: concurrent requests of one user, each of which may
\* be answered 429 on every attempt.
MaxPair == 2
PairMessages == {Array(<<Str(50)>>), Array(<<Str(50000)>>)}
PairReplies == {Ok(50), Ok(50000), TooMany(<< >>), Pay402}

\* Configuration specification: the settings of the limiter in process.env
\* at start-up, a value of each variable being unset, the value the code
\* compares with, or another value.
MaxConfig == 2
ConfigFlags == {{}, {"DISABLE_RATE_LIMIT=true"}, {"DISABLE_RATE_LIMIT=1"}}
ConfigModes == {{}, {"NODE_ENV=production"}, {"NODE_ENV=development"}}
ConfigEnvs ==
    {{"OPENROUTER_API_KEY"} \cup f \cup n : f \in ConfigFlags, n \in ConfigModes}
ConfigMax == 1
ConfigMessages == {Array(<<Str(50)>>)}
ConfigReplies == {Ok(50), Pay402}

\* Users specification: two users who chat, pay and read at the same time.
MaxUsersChat == 2
MaxUsersTx == 2
IsoUsers == {"u1", "u2"}
IsoMessages == {Array(<<Str(50)>>)}
IsoReplies == {Ok(50), Pay402}
IsoOrderBodies == {<<u, "LITE">> : u \in IsoUsers}
IsoVerifyBodies == {<<u, "LITE", "uuid-1", TRUE>> : u \in IsoUsers}

\* Body specification: one request, every shape of a 2xx body.
BodyProviders == {"openrouter", "gpt5-nano", "fetch-proxy"}
BodyMessages == {Array(<<Str(50)>>), Array(<<Str(50), Str(50)>>)}
BodyReplies ==
    {Ok(50), Ok(0), Blank(3),
     Invalid("null"), Invalid("noChoices"), Invalid("noFirstChoice"),
     Invalid("noContent"), Invalid("nullContent"), Invalid("notString")}
BodyJitters == {0}

\* Payment specification.
PayUsers == {"u1", "u2"}
PayOrderBodies == {<<u, "LITE">> : u \in PayUsers} \cup {<<"u1", "PRO">>}
PayVerifyBodies ==
    {<<"u1", "LITE", Uuids[t], TRUE>> : t \in 1..(MaxPayTx + 1)}
    \cup {<<"u2", "LITE", "uuid-1", TRUE>>, <<"u1", "LITE", "undefined", TRUE>>,
          <<"u1", "LITE", "constructor", TRUE>>}

\* Ingress specification (no upstream reply that makes a request sleep).
Addresses == {"a1", "a2"}
IngressMax == {1, 2}
IngressProviders == {"openrouter", "gpt5-nano"}
IngressMessages == {Undefined, Array(<<Str(50)>>)}
IngressReplies == {Ok(50), Pay402}

----------------------------------------------------------------------------
(* Specifications *)

EmptyStore == [x \in {} |-> NoPlan]

disableRateLimit_flagOnly(e) == "DISABLE_RATE_LIMIT=true" \in e

\* process.env.DISABLE_RATE_LIMIT === 'true' || process.env.NODE_ENV !== 'production'
disableRateLimit(e) ==
    "DISABLE_RATE_LIMIT=true" \in e \/ "NODE_ENV=production" \notin e

\* The limiter after rateLimit({...}): no hits counted.  NODE_ENV other
\* than 'production' or DISABLE_RATE_LIMIT 'true' disables it; max is
\* RATE_LIMIT_MAX (100 when unset).
Limiter(disabled, max) ==
    [disabled |-> disabled, max |-> max,
     store |-> [a \in Addresses |-> [totalHits |-> 0, window |-> 0]]]

LimiterOff == Limiter(TRUE, 100)

Init ==
    /\ userEntitlements = EmptyStore
    /\ paymentTransactions = EmptyStore
    /\ razorpayInstance \in BOOLEAN
    /\ env \in ServerEnvs
    /\ chat = [r \in 1..MaxRequests |-> IdleChat]
    /\ orderCalls = {}
    /\ rateLimited = 0
    /\ now = 0
    /\ inherited = [k \in InheritedKeys |-> NoAssigned]
    /\ slept = NotObserved
    /\ client = NoClient
    /\ limiter = LimiterOff

Next ==
    \/ \E r \in 1..MaxRequests, u \in ServerUsers, p \in ServerProviders,
          m \in ServerMessages :
            ChatReceive(r, u, p, m)
    \/ \E r \in 1..MaxRequests, reply \in ServerReplies, j \in ServerJitters :
            UpstreamReply(r, reply, j, TRUE)
    \/ \E r \in 1..MaxRequests : SleepElapsed(r)
    \/ \E b \in OrderBodies :
            /\ Cardinality(DOMAIN paymentTransactions) < MaxTx
            /\ PaymentOrder(b[1], b[2])
    \/ \E t \in 1..MaxTx, ok \in BOOLEAN : PaymentOrderSettled(Uuids[t], ok)
    \/ \E b \in VerifyBodies : PaymentVerify(b[1], b[2], b[3], b[4])
    \/ \E u \in UserIds : GetEntitlements(u)
    \/ \E u \in UserIds : GetTransactions(u)

Spec == Init /\ [][Next]_vars

InitCall ==
    /\ userEntitlements = EmptyStore
    /\ paymentTransactions = EmptyStore
    /\ razorpayInstance = FALSE
    /\ env \in SUBSET EnvKeys
    /\ chat = [r \in {1} |-> IdleChat]
    /\ orderCalls = {}
    /\ rateLimited = 0
    /\ now = 0
    /\ inherited = [k \in InheritedKeys |-> NoAssigned]
    /\ slept = NotObserved
    /\ client = NoClient
    /\ limiter = LimiterOff

NextCall ==
    \/ \E p \in CallProviders, m \in CallMessages :
            ChatReceive(1, "u1", p, m)
    \/ \E reply \in CallReplies, j \in CallJitters : UpstreamReply(1, reply, j, FALSE)
    \/ SleepElapsed(1)

SpecCall == InitCall /\ [][NextCall]_vars

\* Retry specification: the retry loop of one chat request whose sleeps
\* are recorded.
InitRetry ==
    /\ userEntitlements = EmptyStore
    /\ paymentTransactions = EmptyStore
    /\ razorpayInstance = FALSE
    /\ env = EnvKeys
    /\ chat = [r \in {1} |-> IdleChat]
    /\ orderCalls = {}
    /\ rateLimited = 0
    /\ now = 0
    /\ inherited = [k \in InheritedKeys |-> NoAssigned]
    /\ slept = [r \in {1} |-> << >>]
    /\ client = NoClient
    /\ limiter = LimiterOff

NextRetry ==
    \/ \E p \in RetryProviders, m \in RetryMessages :
            ChatReceive(1, "u1", p, m)
    \/ \E reply \in RetryReplies, j \in RetryJitters : UpstreamReply(1, reply, j, FALSE)
    \/ SleepElapsed(1)

SpecRetry == InitRetry /\ [][NextRetry]_vars

\* Pair specification: the retry loops of concurrent chat requests.
InitPair ==
    /\ userEntitlements = EmptyStore
    /\ paymentTransactions = EmptyStore
    /\ razorpayInstance = FALSE
    /\ env = EnvKeys
    /\ chat = [r \in 1..MaxPair |-> IdleChat]
    /\ orderCalls = {}
    /\ rateLimited = 0
    /\ now = 0
    /\ inherited = [k \in InheritedKeys |-> NoAssigned]
    /\ slept = NotObserved
    /\ client = NoClient
    /\ limiter = LimiterOff

NextPair ==
    \/ \E r \in 1..MaxPair, m \in PairMessages : ChatReceive(r, "u1", "undefined", m)
    \/ \E r \in 1..MaxPair, reply \in PairReplies : UpstreamReply(r, reply, 0, FALSE)
    \/ \E r \in 1..MaxPair : SleepElapsed(r)

SpecPair == InitPair /\ [][NextPair]_vars

\* The same where every awaited fetch settles and every timer fires: a
\* request that awaits its upstream call eventually gets a reply or an
\* error, and a request that sleeps eventually wakes.
FairPair ==
    \A r \in 1..MaxPair :
        /\ WF_vars(\E reply \in PairReplies : UpstreamReply(r, reply, 0, FALSE))
        /\ WF_vars(SleepElapsed(r))

SpecPairFair == InitPair /\ [][NextPair]_vars /\ FairPair

\* Configuration specification: start-up under every setting of the
\* limiter, then chat requests of two addresses.
InitConfig ==
    /\ userEntitlements = EmptyStore
    /\ paymentTransactions = EmptyStore
    /\ razorpayInstance = FALSE
    /\ env \in ConfigEnvs
    /\ chat = [r \in 1..MaxConfig |-> IdleChat]
    /\ orderCalls = {}
    /\ rateLimited = 0
    /\ now = 0
    /\ inherited = [k \in InheritedKeys |-> NoAssigned]
    /\ slept = NotObserved
    /\ client = NoClient
    /\ limiter = Limiter(disableRateLimit(env), ConfigMax)

NextConfig ==
    \/ \E r \in 1..MaxConfig, a \in Addresses : LimiterIncrement(r, a)
    \/ \E r \in 1..MaxConfig, m \in ConfigMessages :
            ChatReceive(r, "u1", "undefined", m)
    \/ \E r \in 1..MaxConfig, reply \in ConfigReplies :
            UpstreamReply(r, reply, 0, FALSE)

SpecConfig == InitConfig /\ [][NextConfig]_vars

\* Users specification: chat requests, payments and reads of two users.
InitUsers ==
    /\ userEntitlements = EmptyStore
    /\ paymentTransactions = EmptyStore
    /\ razorpayInstance = TRUE
    /\ env = EnvKeys
    /\ chat = [r \in 1..MaxUsersChat |-> IdleChat]
    /\ orderCalls = {}
    /\ rateLimited = 0
    /\ now = 0
    /\ inherited = [k \in InheritedKeys |-> NoAssigned]
    /\ slept = NotObserved
    /\ client = NoClient
    /\ limiter = LimiterOff

NextUsers ==
    \/ \E r \in 1..MaxUsersChat, u \in IsoUsers, m \in IsoMessages :
            ChatReceive(r, u, "undefined", m)
    \/ \E r \in 1..MaxUsersChat, reply \in IsoReplies :
            UpstreamReply(r, reply, 0, FALSE)
    \/ \E b \in IsoOrderBodies :
            /\ Cardinality(DOMAIN paymentTransactions) < MaxUsersTx
            /\ PaymentOrder(b[1], b[2])
    \/ \E t \in 1..MaxUsersTx, ok \in BOOLEAN : PaymentOrderSettled(Uuids[t], ok)
    \/ \E b \in IsoVerifyBodies : PaymentVerify(b[1], b[2], b[3], b[4])
    \/ \E u \in IsoUsers : GetEntitlements(u)
    \/ \E u \in IsoUsers : GetTransactions(u)

SpecUsers == InitUsers /\ [][NextUsers]_vars

\* Client specification: the calls of callOpenAI in one browser page.
InitClient ==
    /\ userEntitlements = EmptyStore
    /\ paymentTransactions = EmptyStore
    /\ razorpayInstance = FALSE
    /\ env = EnvKeys
    /\ chat = [r \in {} |-> IdleChat]
    /\ orderCalls = {}
    /\ rateLimited = 0
    /\ now = 0
    /\ inherited = [k \in InheritedKeys |-> NoAssigned]
    /\ slept = NotObserved
    /\ limiter = LimiterOff
    /\ client = LoadedClient

NextClient ==
    \/ ClientTick
    \/ \E c \in 1..MaxCalls : ClientCall(c)
    \/ \E c \in 1..MaxCalls : ClientWake(c)

SpecClient == InitClient /\ [][NextClient]_vars

\* Body specification: one chat request and the 2xx bodies of the upstream.
InitBody ==
    /\ userEntitlements = EmptyStore
    /\ paymentTransactions = EmptyStore
    /\ razorpayInstance = FALSE
    /\ env = EnvKeys
    /\ chat = [r \in {1} |-> IdleChat]
    /\ orderCalls = {}
    /\ rateLimited = 0
    /\ now = 0
    /\ inherited = [k \in InheritedKeys |-> NoAssigned]
    /\ slept = NotObserved
    /\ client = NoClient
    /\ limiter = LimiterOff

NextBody ==
    \/ \E p \in BodyProviders, m \in BodyMessages :
            ChatReceive(1, "u1", p, m)
    \/ \E reply \in BodyReplies, j \in BodyJitters : UpstreamReply(1, reply, j, FALSE)
    \/ SleepElapsed(1)

SpecBody == InitBody /\ [][NextBody]_vars

\* Payment specification: the payment and read endpoints while time passes.
InitPay ==
    /\ userEntitlements = EmptyStore
    /\ paymentTransactions = EmptyStore
    /\ razorpayInstance \in BOOLEAN
    /\ env \in ServerEnvs
    /\ chat = [r \in {} |-> IdleChat]
    /\ orderCalls = {}
    /\ rateLimited = 0
    /\ now = 0
    /\ inherited = [k \in InheritedKeys |-> NoAssigned]
    /\ slept = NotObserved
    /\ client = NoClient
    /\ limiter = LimiterOff

NextPay ==
    \/ \E b \in PayOrderBodies :
            /\ Cardinality(DOMAIN paymentTransactions) < MaxPayTx
            /\ PaymentOrder(b[1], b[2])
    \/ \E t \in 1..MaxPayTx, ok \in BOOLEAN : PaymentOrderSettled(Uuids[t], ok)
    \/ \E b \in PayVerifyBodies : PaymentVerify(b[1], b[2], b[3], b[4])
    \/ \E u \in PayUsers \cup InheritedKeys : GetEntitlements(u)
    \/ \E u \in PayUsers : GetTransactions(u)
    \/ Tick

SpecPay == InitPay /\ [][NextPay]_vars

\* Ingress specification: production start-up (limiter mounted), several
\* requests from two addresses, credentials that may be configured late.
InitIngress ==
    /\ userEntitlements = EmptyStore
    /\ paymentTransactions = EmptyStore
    /\ razorpayInstance = FALSE
    /\ env \in {K \cup {"NODE_ENV=production"} : K \in SUBSET EnvKeys}
    /\ chat = [r \in 1..MaxIngress |-> IdleChat]
    /\ orderCalls = {}
    /\ rateLimited = 0
    /\ now = 0
    /\ inherited = [k \in InheritedKeys |-> NoAssigned]
    /\ slept = NotObserved
    /\ client = NoClient
    /\ limiter \in {Limiter(disableRateLimit(env), max) : max \in IngressMax}

NextIngress ==
    \/ \E r \in 1..MaxIngress, a \in Addresses : LimiterIncrement(r, a)
    \/ \E a \in Addresses : WindowReset(a)
    \/ \E r \in 1..MaxIngress : ChatMalformed(r)
    \/ \E r \in 1..MaxIngress, p \in IngressProviders, m \in IngressMessages :
            ChatReceive(r, "u1", p, m)
    \/ \E r \in 1..MaxIngress, reply \in IngressReplies :
            UpstreamReply(r, reply, 0, FALSE)
    \/ \E k \in EnvKeys : ConfigureCredential(k)

SpecIngress == InitIngress /\ [][NextIngress]_vars

----------------------------------------------------------------------------
(* Properties *)

Requests == DOMAIN chat

\* The step in which request r is received by the chat handler.
Received(r) ==
    /\ chat[r].pc = IF limiter.disabled THEN "idle" ELSE "admitted"
    /\ chat'[r].pc # chat[r].pc
    /\ chat'[r].body # "html"

\* tokenUsage and tokenLimit as a reader of the ledger sees them: a user
\* the store does not hold is on FREE with usage 0.
UsageOf(E, u) == IF u \in DOMAIN E THEN E[u].tokenUsage ELSE 0
LimitOf(E, u) == IF u \in DOMAIN E THEN E[u].tokenLimit ELSE 100000

AnyUsers == UserIds \cup {"u2"}

Succeeded(r) == chat[r].pc = "done" /\ chat[r].status = 200

\* C1: a chat request with a messages array that the handler receives while
\* its user's tokenUsage >= tokenLimit is answered 402 with
\* paymentRequired true and the user's entitlement as currentPlan, issues
\* no upstream call and leaves the user's tokenUsage unchanged.
C1_QuotaGate ==
    [][\A r \in Requests :
         LET u == chat'[r].userId
         IN  ( /\ Received(r)
               /\ chat'[r].messages.kind = "array"
               /\ UsageOf(userEntitlements, u) >= LimitOf(userEntitlements, u) )
             => /\ chat'[r].pc = "done"
                /\ chat'[r].status = 402
                /\ chat'[r].paymentRequired
                /\ u \in DOMAIN userEntitlements
                /\ chat'[r].currentPlan = userEntitlements[u]
                /\ chat'[r].fetches = 0
                /\ userEntitlements'[u] = userEntitlements[u]
      ]_vars

C1_Witness ==
    \E r \in Requests :
        /\ chat[r].pc = "done" /\ chat[r].status = 402 /\ chat[r].paymentRequired
        /\ chat[r].fetches = 0
        /\ chat[r].userId \in DOMAIN userEntitlements
        /\ chat[r].currentPlan = userEntitlements[chat[r].userId]
        /\ chat[r].currentPlan.tokenUsage >= chat[r].currentPlan.tokenLimit

\* C2 (as claimed): a request whose messages field is missing, is not an
\* array or is the empty array is answered 400, without a quota check, an
\* upstream call or a usage record.
C2_Claimed ==
    \A r \in Requests :
        ( /\ chat[r].pc # "idle"
          /\ \/ chat[r].messages.kind # "array"
             \/ chat[r].messages.items = << >> )
        => /\ chat[r].pc = "done"
           /\ chat[r].status = 400
           /\ chat[r].fetches = 0

\* C3: with 429 answered to every attempt the call makes exactly 6 upstream
\* attempts and then fails with the rate-limit error; with 429 answered to
\* the first 5 attempts and a success to the 6th it returns the success
\* after exactly 6 attempts.
All429(replies) == \A i \in DOMAIN replies : replies[i] = "429"

\* callOpenAIWithRetry returned to the handler: the request succeeded, or
\* the handler threw afterwards on a null entry of messages.
CallReturned(c) ==
    \/ c.status = 200
    \/ /\ ReduceThrows(c.messages)
       /\ c.error = <<"Failed to process request: ",
                      "Cannot read properties of null (reading 'content')">>

C3_RetryCount ==
    \A r \in Requests :
        LET c == chat[r]
            n == Len(c.replies)
        IN  /\ (n > 0 /\ n <= maxRetries /\ All429(c.replies))
                => /\ c.pc \in {"sleep", "fetch"}
                   /\ c.sleeps = n
                   /\ c.fetches = IF c.pc = "sleep" THEN n ELSE n + 1
            /\ (n = maxRetries + 1 /\ All429(c.replies))
                => /\ c.pc = "done"
                   /\ c.fetches = 6
                   /\ c.sleeps = 5
                   /\ c.status # 200
                   /\ c.lastError =
                        Err("Error", <<c.provider, " rate limit exceeded. Please try again later.">>)
            /\ (n = maxRetries + 1 /\ All429(SubSeq(c.replies, 1, maxRetries))
                    /\ c.replies[n] = "ok")
                => /\ c.pc = "done"
                   /\ c.fetches = 6
                   /\ CallReturned(c)

C3_Witness ==
    /\ \E r \in Requests :
          /\ Len(chat[r].replies) = 6 /\ All429(chat[r].replies)
          /\ chat[r].pc = "done" /\ chat[r].status = 429 /\ chat[r].fetches = 6

C3_WitnessSuccess ==
    \E r \in Requests :
        /\ Len(chat[r].replies) = 6 /\ All429(SubSeq(chat[r].replies, 1, 5))
        /\ chat[r].replies[6] = "ok"
        /\ chat[r].pc = "done" /\ chat[r].status = 200 /\ chat[r].fetches = 6

\* C4: an upstream 402 ends the call at that attempt, whatever the attempt
\* index: no further upstream attempt and no sleep follows, and the chat
\* endpoint answers 402; a 402 to the first attempt makes it the only one.
C4_PaymentRequiredNotRetried ==
    \A r \in Requests :
        LET c == chat[r]
            n == Len(c.replies)
        IN  (n > 0 /\ c.replies[n] = "402")
            => /\ c.pc = "done"
               /\ c.status = 402
               /\ c.fetches = n
               /\ c.attempt = n - 1
               /\ c.delay = 0
               /\ (c.replies[1] = "402" => c.fetches = 1 /\ c.sleeps = 0)

C4_Witness ==
    \E r \in Requests :
        /\ Len(chat[r].replies) = 3 /\ chat[r].replies[3] = "402"
        /\ chat[r].pc = "done" /\ chat[r].status = 402 /\ chat[r].fetches = 3

\* C5 (as claimed): after any non-OK upstream status other than 429, with
\* any body text and any provider identifier, the call fails at that
\* attempt and issues no further upstream attempt.
C5_Claimed ==
    \A r \in Requests :
        LET c == chat[r]
            n == Len(c.replies)
        IN  (n > 0 /\ c.replies[n] \in {"402", "status"})
            => /\ c.pc = "done"
               /\ c.fetches = n

\* C6: hasExceededTokenLimit(userId) is true iff the user's tokenUsage >=
\* tokenLimit, a user the store does not hold counting as FREE with usage 0.
C6_HasExceededIff ==
    \A u \in AnyUsers :
        hasExceededTokenLimit(userEntitlements, u)
            <=> (UsageOf(userEntitlements, u) >= LimitOf(userEntitlements, u))

C6_Witness ==
    /\ \E u \in DOMAIN userEntitlements :
          /\ userEntitlements[u].tokenUsage = userEntitlements[u].tokenLimit
          /\ hasExceededTokenLimit(userEntitlements, u)
    /\ \E u \in AnyUsers :
          u \notin DOMAIN userEntitlements /\ ~hasExceededTokenLimit(userEntitlements, u)

\* C7: updateUserTokenUsage(u, d1) followed by updateUserTokenUsage(u, d2)
\* leaves tokenUsage = initial + d1 + d2 for non-negative d1, d2, the same
\* total as in the opposite order, and the total is not clamped to
\* tokenLimit.
Deltas == {0, 50, 100050}

C7_UsageAdditive ==
    \A u \in AnyUsers : \A d1 \in Deltas : \A d2 \in Deltas :
        LET E == userEntitlements
            a == updateUserTokenUsage(updateUserTokenUsage(E, u, d1), u, d2)
            b == updateUserTokenUsage(updateUserTokenUsage(E, u, d2), u, d1)
        IN  /\ a[u].tokenUsage = UsageOf(E, u) + d1 + d2
            /\ b[u].tokenUsage = a[u].tokenUsage
            /\ a[u].tokenLimit = LimitOf(E, u)

C7_Witness ==
    \E r1 \in Requests : \E r2 \in Requests :
        /\ r1 # r2 /\ Succeeded(r1) /\ Succeeded(r2)
        /\ chat[r1].userId = chat[r2].userId
        /\ chat[r1].tokenInfo.used > 0 /\ chat[r2].tokenInfo.used > 0
        /\ LET e == userEntitlements[chat[r1].userId]
           IN  /\ e.tokenUsage = chat[r1].tokenInfo.used + chat[r2].tokenInfo.used
               /\ e.tokenUsage > e.tokenLimit

\* C8: once no chat request is in flight, every user's tokenUsage is the sum
\* of the token deltas of the requests that succeeded for that user,
\* whatever the interleaving of the requests was.
RECURSIVE SumUsed(_, _)
SumUsed(rs, u) ==
    IF rs = {} THEN 0
    ELSE LET r == CHOOSE x \in rs : TRUE
         IN  (IF Succeeded(r) /\ chat[r].userId = u THEN chat[r].tokenInfo.used ELSE 0)
             + SumUsed(rs \ {r}, u)

C8_NoLostIncrements ==
    (\A r \in Requests : chat[r].pc \in {"idle", "done"})
        => \A u \in AnyUsers : UsageOf(userEntitlements, u) = SumUsed(Requests, u)

\* Two requests of one user that both passed the quota check before either
\* was accounted, and both succeeded.
C8_Witness ==
    /\ \A r \in Requests : chat[r].pc \in {"idle", "done"}
    /\ \E r1 \in Requests : \E r2 \in Requests :
          /\ r1 # r2 /\ Succeeded(r1) /\ Succeeded(r2)
          /\ chat[r1].userId = chat[r2].userId
          /\ chat[r1].tokenInfo.used > 0 /\ chat[r2].tokenInfo.used > 0
          /\ chat[r1].usageAtCheck = 0 /\ chat[r2].usageAtCheck = 0

\* C9: upgradeUserPlan(userId, plan) with a catalog plan sets the user's
\* plan to that key and tokenLimit to that plan's limit and leaves
\* tokenUsage unchanged, so a user whose usage is below the new limit is
\* not exceeded afterwards (usage 100,050 on FREE, upgraded to LITE).
C9_UpgradePreservesUsage ==
    \A u \in AnyUsers : \A p \in PlanKeys :
        LET E == userEntitlements
            up == upgradeUserPlan(E, u, p)
        IN  /\ ~up.threw
            /\ up.ents[u].plan = p
            /\ up.ents[u].tokenLimit = PLANS[p].tokenLimit
            /\ up.ents[u].tokenUsage = UsageOf(E, u)
            /\ (UsageOf(E, u) < PLANS[p].tokenLimit
                  => ~hasExceededTokenLimit(up.ents, u))
            /\ \A v \in DOMAIN E \ {u} : up.ents[v] = E[v]

C9_Witness ==
    /\ "u1" \in DOMAIN userEntitlements
    /\ userEntitlements["u1"].plan = "LITE"
    /\ userEntitlements["u1"].tokenLimit = 2000000
    /\ userEntitlements["u1"].tokenUsage = 100050
    /\ ~hasExceededTokenLimit(userEntitlements, "u1")

\* C10 (as claimed): every stored entitlement's plan is a key of the plan
\* catalog and its tokenLimit is the tokenLimit of that plan.
C10_Claimed ==
    \A u \in DOMAIN userEntitlements :
        /\ userEntitlements[u].plan \in PlanKeys
        /\ userEntitlements[u].tokenLimit = PLANS[userEntitlements[u].plan].tokenLimit

Terminal == {"completed", "failed"}

\* C11 (as claimed): once the status of a transaction is completed or
\* failed, no later step changes any of its fields; in particular the
\* transaction never returns to pending and a second verify call with its
\* id leaves status and updatedAt as they were.
C11_Claimed ==
    [][\A t \in DOMAIN paymentTransactions :
         paymentTransactions[t].status \in Terminal
         => /\ t \in DOMAIN paymentTransactions'
            /\ paymentTransactions'[t] = paymentTransactions[t]
      ]_vars

\* C12: createPaymentTransaction stores a pending transaction of the given
\* user and plan under an id no stored transaction has, leaving the stored
\* ones as they were; updatePaymentTransactionStatus(id, 'completed') at any
\* later time returns that transaction with status completed, updatedAt
\* not earlier than before, and id, userId, plan, amount and createdAt
\* unchanged.
C12_RoundTrip ==
    \A u \in PayUsers, p \in PlanKeys, t2 \in now..MaxTime :
        LET T == paymentTransactions
            id == NewTransactionId(T)
            T1 == createPaymentTransaction(T, u, p, now)
            T2 == updatePaymentTransactionStatus(T1, id, "completed", t2)
        IN  /\ id \notin DOMAIN T
            /\ DOMAIN T1 = DOMAIN T \cup {id}
            /\ \A x \in DOMAIN T : T1[x] = T[x]
            /\ T1[id].id = id /\ T1[id].status = "pending"
            /\ T1[id].userId = u /\ T1[id].plan = p
            /\ DOMAIN T2 = DOMAIN T1
            /\ UpdatedTransaction(T1, id, "completed", t2) = T2[id]
            /\ T2[id].status = "completed"
            /\ T2[id].updatedAt >= T1[id].updatedAt
            /\ T2[id].id = id
            /\ T2[id].userId = T1[id].userId /\ T2[id].plan = T1[id].plan
            /\ T2[id].amount = T1[id].amount
            /\ T2[id].createdAt = T1[id].createdAt

\* A second transaction was created next to a stored one and completed at a
\* later time than it was created.
C12_Witness ==
    /\ Cardinality(DOMAIN paymentTransactions) = 2
    /\ \E t \in DOMAIN paymentTransactions :
            /\ t # Uuids[1]
            /\ paymentTransactions[t].status = "completed"
            /\ paymentTransactions[t].updatedAt > paymentTransactions[t].createdAt

TransactionIds == {Uuids[t] : t \in 1..(MaxPayTx + 1)} \cup InheritedKeys

\* C13 (as claimed): updatePaymentTransactionStatus with an id the store
\* does not hold returns null, creates no transaction and leaves every
\* stored transaction unchanged.
C13_Claimed ==
    \A id \in TransactionIds \ DOMAIN paymentTransactions, st \in Terminal :
        /\ UpdatedTransaction(paymentTransactions, id, st, now) = Null
        /\ updatePaymentTransactionStatus(paymentTransactions, id, st, now)
                = paymentTransactions

\* The number of characters of the contents of messages that are strings.
RECURSIVE CharLengths(_)
CharLengths(items) ==
    IF items = << >> THEN 0
    ELSE (IF Head(items).type = "string" THEN Head(items).length ELSE 0)
         + CharLengths(Tail(items))

StringContents(messages) ==
    \A i \in DOMAIN messages.items : messages.items[i].type \in {"string", "undefined"}

C15_Claimed ==
    [][\A u \in AnyUsers :
         UsageOf(userEntitlements', u) >= UsageOf(userEntitlements, u)]_vars

\* The status the error taxonomy gives a failed request by the kind of
\* the last upstream reply: 429 for rate limiting, 402 for payment
\* required, 500 for a network error, any other error status and a
\* failure after a 2xx reply.
StatusOfKind(kind) ==
    CASE kind = "429" -> 429
      [] kind = "402" -> 402
      [] OTHER -> 500

\* C16 (as claimed): the status of a failed chat request is decided by the
\* kind of its failure alone: 500 for a missing credential (no upstream
\* call was made), otherwise the status of the kind of the last upstream
\* reply, whatever the text of the upstream error body and the provider.
C16_Claimed ==
    \A r \in Requests :
        ( /\ chat[r].pc = "done" /\ chat[r].status # 200
          /\ chat[r].messages.kind = "array" /\ ~chat[r].paymentRequired )
        => chat[r].status =
              IF chat[r].fetches = 0 THEN 500
              ELSE StatusOfKind(chat[r].replies[Len(chat[r].replies)])

\* C17 (as claimed): every chat request that is answered without success
\* is answered with a status outside 200..299 and a JSON body whose error
\* field is a string.
C17_Claimed ==
    \A r \in Requests :
        (chat[r].pc = "done" /\ ~Succeeded(r))
        => /\ chat[r].status \notin 200..299
           /\ chat[r].body = "json"
           /\ chat[r].error # << >>

KnownProviders == {"openrouter", "gpt5-nano"}

\* C18 (as claimed): a request with a provider other than 'openrouter' and
\* 'gpt5-nano' is not failed for its provider: with the credential of
\* 'openrouter' configured it reaches the upstream, and what it sends
\* there is what a request with provider 'openrouter' sends.
C18_Claimed ==
    \A r \in Requests :
        ( /\ chat[r].pc # "idle"
          /\ chat[r].provider \notin KnownProviders
          /\ chat[r].messages.kind = "array"
          /\ Resolve("openrouter").key \in env )
        => /\ chat[r].fetches > 0
           /\ chat[r].request = UpstreamRequest("openrouter")

\* The part of C18 about the switch: the same credential, endpoint and model.
C18_SameResolution ==
    \A r \in Requests :
        ( /\ chat[r].pc # "idle"
          /\ chat[r].provider \notin KnownProviders
          /\ chat[r].messages.kind = "array"
          /\ Resolve("openrouter").key \in env )
        => /\ chat[r].fetches > 0
           /\ chat[r].request.key = UpstreamRequest("openrouter").key
           /\ chat[r].request.endpoint = UpstreamRequest("openrouter").endpoint
           /\ chat[r].request.model = UpstreamRequest("openrouter").model

\* C19: when the handler calls callOpenAIWithRetry (the request has a
\* messages array and its user is within quota), the outcome is decided by
\* the credential process.env holds at that moment: if the credential of
\* the resolved provider is absent the request is answered 500 with no
\* upstream call and no retry, and if it is present, also when it was
\* absent for an earlier request, the first upstream call is issued.
C19_MissingCredential ==
    [][\A r \in Requests :
         ( /\ Received(r)
           /\ chat'[r].messages.kind = "array"
           /\ ~chat'[r].paymentRequired )
         => IF Resolve(chat'[r].provider).key \notin env
            THEN /\ chat'[r].pc = "done" /\ chat'[r].status = 500
                 /\ chat'[r].fetches = 0 /\ chat'[r].sleeps = 0
                 /\ chat'[r].attempt = 0
            ELSE /\ chat'[r].pc = "fetch" /\ chat'[r].fetches = 1
      ]_vars

\* A request was answered 500 for the missing credential of its provider,
\* and a later request for the same provider reached the upstream.
C19_Witness ==
    \E r1, r2 \in Requests :
        /\ r1 < r2
        /\ chat[r1].pc = "done" /\ chat[r1].status = 500 /\ chat[r1].fetches = 0
        /\ chat[r1].error = <<"Server configuration error: ", chat[r1].provider,
                              " API key is not configured">>
        /\ chat[r2].provider = chat[r1].provider
        /\ chat[r2].fetches >= 1

\* The requests of address a that passed the limiter in window w.
Passed(a, w) ==
    {r \in Requests : /\ chat[r].address = a /\ chat[r].window = w
                      /\ chat[r].hit > 0 /\ ~chat[r].limited}

\* The step in which the limiter counts request r.
Counted(r) == chat[r].pc = "idle" /\ chat'[r].hit > 0

\* C20: with the limiter enabled with maximum N, at most N requests of one
\* address pass it within one window; a request the limiter counts beyond
\* N is answered 429 in that step, without the handler (no user is read,
\* no upstream call is made, the ledger is unchanged); and counting a
\* request of one address leaves the counters of the other addresses as
\* they were.
C20_IngressLimit ==
    [][ /\ \A a \in Addresses, w \in 0..MaxWindows :
              Cardinality(Passed(a, w))' <= limiter'.max
        /\ \A r \in Requests :
              Counted(r) =>
                LET a == chat'[r].address
                IN  /\ chat'[r].hit = limiter.store[a].totalHits + 1
                    /\ chat'[r].window = limiter.store[a].window
                    /\ \A b \in Addresses \ {a} :
                            limiter'.store[b] = limiter.store[b]
                    /\ IF chat'[r].hit > limiter.max
                       THEN /\ chat'[r].limited
                            /\ chat'[r].pc = "done" /\ chat'[r].status = 429
                            /\ chat'[r].userId = "none" /\ chat'[r].fetches = 0
                            /\ UNCHANGED <<userEntitlements, paymentTransactions>>
                       ELSE /\ ~chat'[r].limited
                            /\ chat'[r].pc = "admitted"
        /\ \A r \in Requests :
              chat[r].limited => chat'[r] = chat[r]
      ]_vars

\* With maximum 1: the first request of address a1 passed, the second of
\* a1 in the same window was answered 429 by the limiter, and a request of
\* address a2 passed.
C20_Witness ==
    /\ limiter.max = 1
    /\ \E r1, r2, r3 \in Requests :
          /\ chat[r1].address = "a1" /\ chat[r1].hit = 1 /\ ~chat[r1].limited
          /\ chat[r2].address = "a1" /\ chat[r2].hit = 2 /\ chat[r2].limited
          /\ chat[r2].window = chat[r1].window
          /\ chat[r2].status = 429 /\ chat[r2].fetches = 0
          /\ chat[r3].address = "a2" /\ chat[r3].hit = 1 /\ ~chat[r3].limited

\* C21 (as claimed): for a user id the store does not hold,
\* getUserEntitlements creates and returns the entitlement {plan FREE,
\* tokenUsage 0, tokenLimit 100000, expiresAt null} and leaves the other
\* entitlements alone; a second call returns an equal value and does not
\* change the store.
C21_Claimed ==
    \A u \in (PayUsers \cup InheritedKeys) \ DOMAIN userEntitlements :
        LET E == userEntitlements
            E1 == getUserEntitlements(E, u)
            first == ReturnedEntitlement(E, inherited, u)
            second == ReturnedEntitlement(E1, inherited, u)
        IN  /\ DOMAIN E1 = DOMAIN E \cup {u}
            /\ \A x \in DOMAIN E : E1[x] = E[x]
            /\ first = [userId |-> u, plan |-> "FREE", tokenUsage |-> 0,
                        tokenLimit |-> 100000, expiresAt |-> "null"]
            /\ second = first
            /\ getUserEntitlements(E1, u) = E1

\* The same for the user ids that are not keys the store inherits.
C21_OrdinaryIds ==
    \A u \in PayUsers \ DOMAIN userEntitlements :
        LET E == userEntitlements
            E1 == getUserEntitlements(E, u)
            first == ReturnedEntitlement(E, inherited, u)
            second == ReturnedEntitlement(E1, inherited, u)
        IN  /\ DOMAIN E1 = DOMAIN E \cup {u}
            /\ \A x \in DOMAIN E : E1[x] = E[x]
            /\ first = [userId |-> u, plan |-> "FREE", tokenUsage |-> 0,
                        tokenLimit |-> 100000, expiresAt |-> "null"]
            /\ second = first
            /\ getUserEntitlements(E1, u) = E1

\* The last element of a non-empty sequence.
Last(q) == q[Len(q)]

\* Request c entered callOpenAIWithRetry: it issued an upstream call, or the
\* call threw for a missing credential before the first one.
Dispatched(c) ==
    \/ c.fetches > 0
    \/ c.error = <<"Server configuration error: ", c.provider, " API key is not configured">>

\* C22: a chat request passes the stages validation, quota check, upstream
\* dispatch, usage accounting and response in this order.  Its first
\* upstream call is issued in the run that received it, with a messages
\* array and tokenUsage below tokenLimit; tokenUsage changes only in the run
\* in which an upstream call of a request of that user returned a valid
\* body, and that run is the one that sends the 200 answer, whose tokenInfo
\* shows the usage after the increment; a request answered before it was
\* dispatched was answered 400 or 402.
C22_StageOrder ==
    [][/\ \A r \in Requests :
            LET c == chat[r]
                d == chat'[r]
                u == d.userId
            IN  /\ (c.fetches = 0 /\ d.fetches > 0)
                    => /\ Received(r)
                       /\ d.fetches = 1
                       /\ d.messages.kind = "array"
                       /\ UsageOf(userEntitlements, u) < LimitOf(userEntitlements, u)
                /\ (c.pc # "done" /\ d.pc = "done" /\ d.status = 200)
                    => /\ c.pc = "fetch"
                       /\ Last(d.replies) \in {"ok", "blank"}
                       /\ UsageOf(userEntitlements', u)
                            = UsageOf(userEntitlements, u) + d.tokenInfo.used
                       /\ d.tokenInfo.totalUsage = UsageOf(userEntitlements', u)
                /\ (c.pc # "done" /\ d.pc = "done" /\ ~Dispatched(d))
                    => /\ Received(r)
                       /\ d.status \in {400, 402}
                       /\ d.status = 400 <=> d.messages.kind # "array"
       /\ \A u \in AnyUsers :
            UsageOf(userEntitlements', u) # UsageOf(userEntitlements, u)
                => \E r \in Requests :
                        /\ chat[r].pc = "fetch" /\ chat'[r].pc = "done"
                        /\ chat'[r].status = 200 /\ chat'[r].userId = u
      ]_vars

\* An early exit and every stage have happened: one request was answered
\* 402 before dispatch, and one was dispatched, retried after a sleep,
\* accounted and answered 200.
C22_Witness ==
    /\ \E r \in Requests : chat[r].pc = "done" /\ chat[r].status = 402
                            /\ chat[r].fetches = 0
    /\ \E r \in Requests :
            /\ Succeeded(r) /\ chat[r].fetches = 2 /\ chat[r].sleeps = 1
            /\ UsageOf(userEntitlements, chat[r].userId) >= chat[r].tokenInfo.used
            /\ chat[r].tokenInfo.used > 0

\* The sleeps request r began that the 429 branch computed by backoff.
BackoffSleeps(r) ==
    {i \in DOMAIN slept[r] : slept[r][i].cause = "429" /\ slept[r][i].hint = << >>}

\* C23: the delay of a sleep after a 429 without retry-after on attempt k
\* (0..4) lies between 2^k*1000 and 2^k*1000+1000 ms and is at most 30000
\* ms, and over the rate-limit retries of a request these delays never
\* decrease.
C23_BackoffRange ==
    \A r \in DOMAIN slept :
        /\ \A i \in BackoffSleeps(r) :
                LET k == slept[r][i].attempt
                    delay == slept[r][i].delay
                IN  /\ k \in 0..4
                    /\ delay >= 2^k * 1000
                    /\ delay <= 2^k * 1000 + 1000
                    /\ delay <= 30000
        /\ \A i, j \in BackoffSleeps(r) :
                i < j => slept[r][i].delay <= slept[r][j].delay

\* Five consecutive backoff sleeps, the first with the largest jitter and
\* the second with the smallest.
C23_Witness ==
    \E r \in DOMAIN slept :
        /\ BackoffSleeps(r) = 1..5
        /\ slept[r][1].delay = 1999
        /\ slept[r][2].delay = 2000
        /\ slept[r][5].delay > 16000

\* The run of request r in which an upstream reply of kind `kind` arrived.
Replied(r, kind) ==
    /\ chat[r].pc = "fetch"
    /\ Len(chat'[r].replies) = Len(chat[r].replies) + 1
    /\ Last(chat'[r].replies) = kind

\* C24: a 429 on an attempt before the last makes the request sleep; with a
\* retry-after of s seconds the delay is exactly s*1000 ms, and without one
\* it is the backoff of the attempt.
C24_RetryAfterHonoured ==
    [][\A r \in DOMAIN slept :
         (Replied(r, "429") /\ chat[r].attempt < maxRetries)
            => /\ chat'[r].pc = "sleep"
               /\ Len(slept'[r]) = Len(slept[r]) + 1
               /\ LET e == Last(slept'[r])
                      k == chat[r].attempt
                  IN  /\ e.attempt = k
                      /\ e.cause = "429"
                      /\ chat'[r].delay = e.delay
                      /\ e.hint # << >> => e.delay = e.hint[1] * 1000
                      /\ e.hint = << >> => e.delay \in (2^k * 1000)..(2^k * 1000 + 999)
      ]_vars

\* A retry-after of 2 seconds on attempt 0 was slept 2000 ms, which no
\* backoff of attempt 0 is, and one of 60 seconds 60000 ms.
C24_Witness ==
    \E r \in DOMAIN slept :
        /\ Len(slept[r]) >= 2
        /\ slept[r][1] = [attempt |-> 0, delay |-> 2000, hint |-> <<2>>, cause |-> "429"]
        /\ slept[r][2] = [attempt |-> 1, delay |-> 60000, hint |-> <<60>>, cause |-> "429"]

RECURSIVE TotalSlept(_)
TotalSlept(q) == IF q = << >> THEN 0 ELSE q[1].delay + TotalSlept(Tail(q))

\* C25: whatever the upstream answers, every sleep of the retry loop lasts
\* at most 30000 ms, and a request sleeps at most 6*30000 ms in all.
C25_Claimed ==
    \A r \in DOMAIN slept :
        /\ \A i \in DOMAIN slept[r] : slept[r][i].delay <= 30000
        /\ TotalSlept(slept[r]) <= 6 * 30000

\* C26: a request whose fetch rejects on an attempt before the last sleeps
\* the backoff of the attempt and tries again; a request all of whose
\* fetches reject is answered after exactly 6 attempts.
C26_Claimed ==
    [][\A r \in DOMAIN slept :
         Replied(r, "reject")
            => IF chat[r].attempt < maxRetries
               THEN /\ chat'[r].pc = "sleep"
                    /\ chat'[r].delay \in (2^chat[r].attempt * 1000)
                                            ..(2^chat[r].attempt * 1000 + 1000)
               ELSE /\ chat'[r].pc = "done"
                    /\ chat'[r].fetches = maxRetries + 1
      ]_vars

\* The same for the rejections that are a TypeError, which hold.
C26_TypeErrorRetried ==
    [][\A r \in DOMAIN slept :
         (Replied(r, "reject") /\ chat'[r].lastError.type = "TypeError")
            => IF chat[r].attempt < maxRetries
               THEN /\ chat'[r].pc = "sleep"
                    /\ chat'[r].delay \in (2^chat[r].attempt * 1000)
                                            ..(2^chat[r].attempt * 1000 + 1000)
               ELSE /\ chat'[r].pc = "done"
                    /\ chat'[r].fetches = maxRetries + 1
      ]_vars

\* C27: a 2xx reply whose body is structurally invalid ends the request in
\* the same run with an error answer, and no further upstream call is made.
C27_Claimed ==
    [][\A r \in Requests :
         Replied(r, "invalid")
            => /\ chat'[r].pc = "done"
               /\ chat'[r].status = 500
               /\ chat'[r].fetches = chat[r].fetches
      ]_vars

\* C28 as stated: a request is answered 200 only if the content of the
\* first choice of the upstream reply is a non-empty string that is not
\* white space only.
C28_Claimed ==
    \A r \in Requests :
        Succeeded(r) => Last(chat[r].replies) = "ok" /\ chat[r].replyLength > 0

\* C28 amended: a request is answered 200 only if the content of the first
\* choice of the upstream reply is a string; a reply whose content is a
\* string, the empty and the white-space-only one included, is returned by
\* the retrier in the run it arrives in, answered 200, and accounted with
\* the length of the content as output tokens.
C28_EmptyAccepted ==
    [][\A r \in Requests :
         LET c == chat[r]
             d == chat'[r]
             u == c.userId
         IN  /\ (c.pc # "done" /\ d.pc = "done" /\ d.status = 200)
                    => Last(d.replies) \in {"ok", "blank"}
             /\ (Replied(r, "ok") \/ Replied(r, "blank"))
                    => /\ d.pc = "done" /\ d.status = 200
                       /\ d.fetches = c.fetches
                       /\ d.tokenInfo.used = CharLengths(c.messages.items) + d.replyLength
                       /\ UsageOf(userEntitlements', u)
                            = UsageOf(userEntitlements, u) + d.tokenInfo.used
      ]_vars

\* Requests answered 200 on empty content: the input tokens alone were
\* accounted.
C28_Witness ==
    \E r \in Requests :
        /\ Succeeded(r)
        /\ chat[r].replyLength = 0
        /\ chat[r].tokenInfo.used = 50
        /\ UsageOf(userEntitlements, chat[r].userId) = 50

\* The plan of user u as a reader of the ledger sees it.
PlanOf(E, u) == IF u \in DOMAIN E THEN E[u].plan ELSE "FREE"

\* A run of the chat handler: the only actions that change a chat request.
ChatStep == chat' # chat

\* C29: no run of the chat handler changes the plan or the tokenLimit of
\* any user; a run changes the tokenUsage of a user only when it answers a
\* request of that user 200, and then by the tokens of that request; so a
\* request answered 400, 402, 429 or 500, after retries or not, has changed
\* nothing.
C29_FailureFrame ==
    [][ChatStep =>
         \A u \in AnyUsers :
            /\ PlanOf(userEntitlements', u) = PlanOf(userEntitlements, u)
            /\ LimitOf(userEntitlements', u) = LimitOf(userEntitlements, u)
            /\ \/ UsageOf(userEntitlements', u) = UsageOf(userEntitlements, u)
               \/ \E r \in Requests :
                    /\ chat[r].pc = "fetch" /\ chat'[r].pc = "done"
                    /\ chat'[r].status = 200 /\ chat'[r].userId = u
                    /\ UsageOf(userEntitlements', u)
                         = UsageOf(userEntitlements, u) + chat'[r].tokenInfo.used
            /\ (\E r \in Requests : chat[r].pc # "done" /\ chat'[r].pc = "done"
                                    /\ chat'[r].status # 200)
                 => UsageOf(userEntitlements', u) = UsageOf(userEntitlements, u)
      ]_vars

\* A request failed after a retry while the usage of its user is what the
\* other request, which succeeded, accounted.
C29_Witness ==
    \E r1, r2 \in Requests :
        /\ Succeeded(r1)
        /\ chat[r2].pc = "done" /\ chat[r2].status \in {429, 500}
        /\ chat[r2].fetches >= 2
        /\ chat[r2].userId = chat[r1].userId
        /\ UsageOf(userEntitlements, chat[r1].userId) = chat[r1].tokenInfo.used
        /\ chat[r1].tokenInfo.used > 0

\* Request q is the next to arrive.
NextToArrive(q) == chat[q].pc = "idle" /\ (q > 1 => chat[q - 1].pc # "idle")

\* C30: while a chat request is suspended in a backoff sleep or awaiting
\* the upstream, every other handler can run: the next chat request can be
\* counted by the limiter and received, for any user and payload; another
\* request that awaits the upstream can take its reply and complete; the
\* entitlements of any user can be read; a payment order and a payment
\* verification can run.
C30_NothingHeld ==
    \A r \in Requests :
        Suspended(r) =>
            /\ \A q \in Requests :
                (NextToArrive(q) /\ limiter.disabled)
                    => \A u \in ServerUsers, m \in ServerMessages :
                            ENABLED ChatReceive(q, u, "undefined", m)
            /\ \A q \in Requests :
                (NextToArrive(q) /\ ~limiter.disabled)
                    => \A a \in Addresses : ENABLED LimiterIncrement(q, a)
            /\ \A q \in Requests :
                chat[q].pc = "admitted"
                    => ENABLED ChatReceive(q, "u1", "undefined", Array(<<Str(50)>>))
            /\ \A q \in Requests \ {r} :
                chat[q].pc = "fetch" => ENABLED UpstreamReply(q, Ok(50), 0, FALSE)
            /\ \A u \in UserIds : ENABLED GetEntitlements(u)
            /\ \A b \in OrderBodies : ENABLED PaymentOrder(b[1], b[2])
            /\ \A b \in VerifyBodies : ENABLED PaymentVerify(b[1], b[2], b[3], b[4])

\* While request 1 sleeps in its backoff, request 2 of the same user has
\* been received, has completed and has been accounted, and a payment
\* verification has upgraded the plan of the user.
C30_Witness ==
    /\ chat[1].pc = "sleep"
    /\ Succeeded(2)
    /\ chat[2].userId = chat[1].userId
    /\ UsageOf(userEntitlements, chat[2].userId) = chat[2].tokenInfo.used
    /\ chat[2].tokenInfo.used > 0
    /\ PlanOf(userEntitlements, chat[2].userId) = "LITE"

\* C31: the attempt index and the last error of a chat request change only
\* in a run of that request (its upstream reply or the end of its sleep),
\* the attempt index by one; a run of one request, its failure and its
\* exhaustion included, leaves the record of every other request as it
\* was; and no request issues more than 6 upstream attempts.
C31_RetryStatePerRequest ==
    [][\A r \in Requests :
         /\ chat'[r].fetches <= maxRetries + 1
         /\ chat'[r].attempt <= maxRetries
         /\ chat'[r].attempt # chat[r].attempt
                => /\ Suspended(r)
                   /\ chat'[r].attempt = chat[r].attempt + 1
         /\ chat'[r].lastError # chat[r].lastError => chat[r].pc = "fetch"
         /\ chat'[r] # chat[r] => \A q \in Requests \ {r} : chat'[q] = chat[q]
      ]_vars

\* Request 2 exhausted its 6 attempts while request 1, received before it,
\* still sleeps before its own sixth attempt.
C31_Witness ==
    /\ chat[2].pc = "done" /\ chat[2].status = 429 /\ chat[2].fetches = 6
    /\ chat[1].pc = "sleep" /\ chat[1].attempt = 4 /\ chat[1].fetches = 5

C32_WitnessActive ==
    /\ "DISABLE_RATE_LIMIT=1" \in env
    /\ \E r \in Requests : chat[r].limited /\ chat[r].status = 429

\* The run in which the usage of request r is recorded.
Accounted(r) ==
    chat[r].pc = "fetch" /\ chat'[r].pc = "done" /\ chat'[r].status = 200

\* C33: when the usage of a chat request is recorded, the tokenUsage of its
\* user before the increment is below the tokenLimit, so that afterwards
\* it exceeds the limit by no more than the tokens of that request.
C33_Claimed ==
    [][\A r \in Requests :
         Accounted(r) =>
            LET u == chat[r].userId
            IN  /\ UsageOf(userEntitlements, u) < LimitOf(userEntitlements, u)
                /\ UsageOf(userEntitlements', u)
                     <= LimitOf(userEntitlements', u) + chat'[r].tokenInfo.used
      ]_vars

\* The same for a request during whose upstream call no other request of
\* the user was accounted: then the quota check still holds.
C33_Alone ==
    [][\A r \in Requests :
         (Accounted(r)
            /\ UsageOf(userEntitlements, chat[r].userId) = chat[r].usageAtCheck)
            => UsageOf(userEntitlements, chat[r].userId)
                    < LimitOf(userEntitlements, chat[r].userId)
      ]_vars

\* C34: the plan or the tokenLimit of a user changes only in a step that
\* completes a pending transaction which was created for that user and for
\* the plan the user then has.
C34_Claimed ==
    [][\A u \in AnyUsers :
         (\/ PlanOf(userEntitlements', u) # PlanOf(userEntitlements, u)
          \/ LimitOf(userEntitlements', u) # LimitOf(userEntitlements, u))
            => \E t \in DOMAIN paymentTransactions :
                    /\ paymentTransactions[t].status = "pending"
                    /\ paymentTransactions'[t].status = "completed"
                    /\ paymentTransactions[t].userId = u
                    /\ paymentTransactions[t].plan = PlanOf(userEntitlements', u)
      ]_vars

\* The statuses of the stored transactions.
Statuses(T) == [t \in DOMAIN T |-> T[t].status]

AllVerifyBodies == VerifyBodies \cup PayVerifyBodies

\* C35: a verify call that is answered 400 or 500 leaves the status of every
\* transaction and the plan and tokenLimit of every user as they were.
C35_Claimed ==
    [][\A b \in AllVerifyBodies :
         (/\ PaymentVerify(b[1], b[2], b[3], b[4])
          /\ VerifyStatus(b[1], b[2], b[3], b[4]) \in {400, 500})
            => /\ Statuses(paymentTransactions') = Statuses(paymentTransactions)
               /\ \A u \in AnyUsers :
                    /\ PlanOf(userEntitlements', u) = PlanOf(userEntitlements, u)
                    /\ LimitOf(userEntitlements', u) = LimitOf(userEntitlements, u)
      ]_vars

\* The same for the calls rejected before the ledger is touched (400 for a
\* missing parameter, 500 for an unconfigured gateway), which holds.
C35_RejectedEarly ==
    [][\A b \in AllVerifyBodies :
         (/\ PaymentVerify(b[1], b[2], b[3], b[4])
          /\ VerifyRejected(b[1], b[2], b[3], b[4]) # 0)
            => UNCHANGED <<paymentTransactions, userEntitlements>>
      ]_vars

AllOrderBodies == OrderBodies \cup PayOrderBodies

C37_Termination ==
    /\ \A r \in 1..MaxPair : Suspended(r) ~> (chat[r].pc = "done")
    /\ [][\A r \in Requests :
            /\ chat[r].pc = "done" => chat'[r] = chat[r]
            /\ chat'[r].pc = "done" => chat'[r].status # 0 /\ chat'[r].body = "json"
            /\ chat'[r].fetches <= 6
            /\ chat'[r].sleeps <= 5
            /\ chat'[r].pc = "sleep" => chat'[r].fetches <= 5
       ]_vars

\* One request was answered after 6 upstream calls and 5 sleeps with the
\* reply of the sixth, the other with the 429 of its sixth.
C37_Witness ==
    /\ Succeeded(1) /\ chat[1].fetches = 6 /\ chat[1].sleeps = 5
    /\ chat[2].pc = "done" /\ chat[2].status = 429
    /\ chat[2].fetches = 6 /\ chat[2].sleeps = 5

\* C38: a chat request without userId is handled for the user 'anonymous':
\* its quota check reads the entitlement 'anonymous', and while that
\* entitlement is on the FREE plan with tokenUsage at or above the FREE
\* limit the request is answered 402 without an upstream call; the usage
\* of every such request that succeeds is added to the tokenUsage of
\* 'anonymous' and to that of no other user.
C38_SharedAnonymous ==
    [][\A r \in Requests :
         /\ \A m \in ServerMessages :
                ChatReceive(r, "undefined", "undefined", m)
                    => /\ chat'[r].userId = "anonymous"
                       /\ m.kind = "array"
                            => /\ chat'[r].usageAtCheck
                                    = UsageOf(userEntitlements, "anonymous")
                               /\ "anonymous" \in DOMAIN userEntitlements'
                       /\ ( /\ m.kind = "array"
                            /\ PlanOf(userEntitlements, "anonymous") = "FREE"
                            /\ UsageOf(userEntitlements, "anonymous") >= 100000 )
                            => /\ chat'[r].pc = "done" /\ chat'[r].status = 402
                               /\ chat'[r].fetches = 0
         /\ (Accounted(r) /\ chat[r].userId = "anonymous")
                => /\ UsageOf(userEntitlements', "anonymous")
                        = UsageOf(userEntitlements, "anonymous") + chat'[r].tokenInfo.used
                   /\ \A u \in AnyUsers \ {"anonymous"} :
                        UsageOf(userEntitlements', u) = UsageOf(userEntitlements, u)
      ]_vars

\* Two requests without userId: the first used up the FREE quota of
\* 'anonymous', the second was answered 402 for it.
C38_Witness ==
    /\ Succeeded(1) /\ chat[1].userId = "anonymous"
    /\ chat[2].userId = "anonymous" /\ chat[2].status = 402 /\ chat[2].fetches = 0
    /\ chat[2].usageAtCheck = chat[1].tokenInfo.used
    /\ UsageOf(userEntitlements, "anonymous") = 100000
    /\ "u1" \notin DOMAIN userEntitlements

\* What the ledger holds of user u, as a reader sees it.
View(E, u) == <<UsageOf(E, u), PlanOf(E, u), LimitOf(E, u)>>

\* A run of a handler for user A: a chat request of A is received or gets
\* its upstream reply, the entitlements of A are read, or a payment of A is
\* verified.
RunFor(A) ==
    \/ \E r \in Requests, m \in IsoMessages : ChatReceive(r, A, "undefined", m)
    \/ \E r \in Requests, reply \in IsoReplies :
            chat[r].userId = A /\ UpstreamReply(r, reply, 0, FALSE)
    \/ GetEntitlements(A)
    \/ \E b \in IsoVerifyBodies : b[1] = A /\ PaymentVerify(b[1], b[2], b[3], b[4])

\* C39: a chat request, an entitlement read or a payment verification for
\* user A leaves tokenUsage, plan and tokenLimit of every other user as
\* they were; and the transactions returned for A are stored transactions,
\* all have userId A, and every stored transaction with userId A is among
\* them.
C39_Isolation ==
    /\ [][\A A \in IsoUsers : \A B \in IsoUsers \ {A} :
            RunFor(A) => View(userEntitlements', B) = View(userEntitlements, B)
       ]_vars
    /\ [](\A A \in IsoUsers :
            LET got == TransactionsOf(paymentTransactions, A)
            IN  /\ \A t \in got :
                    /\ t.userId = A
                    /\ \E id \in DOMAIN paymentTransactions : paymentTransactions[id] = t
                /\ \A id \in DOMAIN paymentTransactions :
                    paymentTransactions[id].userId = A => paymentTransactions[id] \in got)

\* Both users have used tokens, u1 was upgraded and u2 was not, and each
\* has a transaction of their own in the store.
C39_Witness ==
    /\ UsageOf(userEntitlements, "u1") = 100
    /\ UsageOf(userEntitlements, "u2") = 100
    /\ PlanOf(userEntitlements, "u1") = "LITE"
    /\ PlanOf(userEntitlements, "u2") = "FREE"
    /\ Cardinality(TransactionsOf(paymentTransactions, "u1")) = 1
    /\ Cardinality(TransactionsOf(paymentTransactions, "u2")) = 1

Calls == DOMAIN client.calls

\* C40: any two calls of callOpenAI leave waitForRateLimit and issue their
\* fetch at instants that are at least MIN_REQUEST_INTERVAL (1000 ms)
\* apart.
C40_Claimed ==
    \A c, d \in Calls :
        (c # d /\ client.calls[c].pc = "sent" /\ client.calls[d].pc = "sent")
            => \/ client.calls[c].sentAt - client.calls[d].sentAt >= 1000
               \/ client.calls[d].sentAt - client.calls[c].sentAt >= 1000

====
